---- MODULE Spec2Model ----
(***************************************************************************)
(* randmst: the complete-graph MST sampler (src/src/complete) and the      *)
(* size-tracking disjoint-set it drives.                                   *)
(*                                                                         *)
(*   Spec    the sampler: FatComponentSampler::new followed by next()      *)
(*           calls, each rejection loop one draw at a time.                *)
(*   SpecUF  the disjoint-set alone: SizedUnionFind::new followed by any   *)
(*           sequence of unite / root / size / same_set calls.             *)
(*   SpecW   the sampler on the fewest points with more than 2^16 pairs,   *)
(*           across the switch of the weight accumulation.                 *)
(*   SpecZ   the sampler of src/src/zero_dim over its RemUnionFind.        *)
(*   SpecAll a run of the complete sampler or of the zero_dim sampler.     *)
(***************************************************************************)
EXTENDS Integers, Sequences, FiniteSets, TLC

\* Runs of 2 .. MaxN points are explored with every draw of the generator.
MaxN == 6

\* One larger run, of BigN points, is explored too: large enough for the fat
\* component to be found while several points are still outside it, so that
\* remainder entries go stale. While no fat component is tracked its draws
\* are limited to the pairs (u, BigN - 2) with u < BigN - 1, so that the last
\* point is outside the component found and becomes its root once it joins;
\* once a fat component is tracked every draw is explored.
BigN == 11

\* The disjoint-set alone is explored on 2 .. MaxUF points.
MaxUF == 5

\* The zero_dim sampler is explored on 2 .. MaxZ points with every draw, and
\* on BigN points with the draws of the large run.
MaxZ == 5

\* The samples of Exp1 explored are 0, 1 and MaxExp, in units of 1.0: a finite
\* f64 sample of the ziggurat is below 45.
MaxExp == 45

\* The run that crosses the limit of the approximate accumulation is followed
\* until free_edges is WBelow under that limit.
WBelow == 40

\* sampler.rs line 42: above 1 << 16 free edges the weight is accumulated by
\* subtraction.
ApproxLimit == 65536

\* inv_weight is kept in fixed point, in units of 1 / Scale.
Scale == 2 ^ 14

VARIABLES
    data,            \* SizedUnionFind.data: one LinkSizeCompact slot per point
    size,            \* SizedUnionFind.size: the number of points
    total_edges,     \* SizedUnionFind.total_edges
    total_internal,  \* SizedUnionFind.total_internal
    total_count,     \* FatComponentSampler.total_count: the remaining edge quota
    fat_component,   \* FatComponentSampler.fat_component: Option<FatComponent>
    pc,              \* where the sampler is inside next()
    edge,            \* the pair being drawn by the sampling functions
    emitted,         \* number of Some(edge) returned by next() so far
    detections,      \* number of calls of find_fat_component so far
    part,            \* history: the partition the unite calls so far define
    inv_weight,      \* FatComponentSampler.inv_weight, in units of 1 / Scale
    weight,          \* zero_dim FatComponentSampler.weight, in units of 1 / Scale
    advances,        \* history: number of updates of inv_weight so far
    rate,            \* history: the free_edges the last update divided by
    args,            \* main: Args (num_points, num_trials, dimension)
    total_weight,    \* complete::mst: total_weight, in units of 1 / Scale
    added,           \* complete::mst: number of weights added so far
    results,         \* main: the weights the trials returned so far
    vector,          \* BitVector.vector: each u64 as the set of its set bits
    elements,        \* history: the elements inserted and not removed since
    inv_additive,       \* inv_weight had every update been the one of line 43
    inv_multiplicative, \* inv_weight had every update been the one of line 46
    other,           \* a second BitVector, the operand of the set operations
    iter,            \* BitVectorIter / BitVectorIntoIter: the iterator's fields
    out              \* the last call of a function and what it returned

vars == <<data, size, total_edges, total_internal, total_count, fat_component,
          pc, edge, emitted, detections, part, inv_weight, weight, advances,
          rate, args, total_weight, added, results, vector, elements,
          inv_additive, inv_multiplicative, other, iter, out>>

\* The weight accumulator and its history.
accumulator == <<inv_weight, weight, advances, rate>>

\* What main, run_trial and complete::mst keep around a sampler.
driver == <<args, total_weight, added, results>>

\* The BitVector and its history.
bits == <<vector, elements>>

\* The two updates of inv_weight followed side by side.
modes == <<inv_additive, inv_multiplicative>>

\* The operand, the iterator and the result of the calls on values.
calls == <<other, iter, out>>

\* What is outside a sampler.
outside == <<driver, bits, modes, calls>>

-----------------------------------------------------------------------------
(* LinkSizeCompact: a slot is either a root carrying a size (the SENTINEL  *)
(* bit set) or a link to a parent point (the bit clear). expand() is the   *)
(* tagged view {Parent(Point), Size(u32)} modelled here.                   *)

LinkSizeCompact_root(sz) == [is_root |-> TRUE, v |-> sz]

LinkSizeCompact_link(parent_pt) == [is_root |-> FALSE, v |-> parent_pt]

is_root(slot) == slot.is_root

\* try_size is only used on slots already known to be roots.
try_size(slot) == slot.v

\* SizedUnionFind::parent: a root is its own parent.
parent(d, u) == IF is_root(d[u]) THEN u ELSE d[u].v

\* SizedUnionFind::link: src == dst is skipped.
link(d, src, dst) ==
    IF src # dst THEN [d EXCEPT ![src] = LinkSizeCompact_link(dst)] ELSE d

\* root_size_loop with the slot copied before the test that ends the loop:
\* the child of the root receives the root's slot.
RECURSIVE root_size_loop_copy_first(_, _)
root_size_loop_copy_first(d, root_pt) ==
    LET temp == parent(d, root_pt)
        d1 == [d EXCEPT ![root_pt] = d[temp]]
    IN IF is_root(d[temp])
       THEN [data |-> d1, root |-> temp, size |-> try_size(d[temp])]
       ELSE root_size_loop_copy_first(d1, temp)

\* The loop of root_size: prev always is the slot of `root`.
RECURSIVE root_size_loop(_, _)
root_size_loop(d, root_pt) ==
    LET temp == parent(d, root_pt) IN
    IF is_root(d[temp])
    THEN [data |-> d, root |-> temp, size |-> try_size(d[temp])]
    ELSE root_size_loop([d EXCEPT ![root_pt] = d[temp]], temp)

\* SizedUnionFind::root_size, with path splitting; returns the slots after it.
root_size(d, u) ==
    IF is_root(d[u])
    THEN [data |-> d, root |-> u, size |-> try_size(d[u])]
    ELSE root_size_loop(d, u)

\* SizedUnionFind::same_set: root(u) is evaluated first, then root(v).
same_set(d, u, v) ==
    LET ru == root_size(d, u)
        rv == root_size(ru.data, v)
    IN [data |-> rv.data, ret |-> (ru.root = rv.root)]

RECURSIVE link_queue(_, _, _)
link_queue(d, queue, root_pt) ==
    IF queue = <<>> THEN d
    ELSE link_queue(link(d, Head(queue), root_pt), Tail(queue), root_pt)

\* unite_join adding the sum of the two sizes to the counter, not the product.
unite_join_sum(d, ti, u, v, queue) ==
    LET join_size == try_size(d[u])
        d1 == link(d, u, parent(d, v))
        rs == root_size(d1, v)
        d2 == [rs.data EXCEPT ![rs.root] = LinkSizeCompact_root(rs.size + join_size)]
        d3 == link_queue(d2, queue, rs.root)
    IN [data |-> d3, total_internal |-> ti + rs.size + join_size, ret |-> TRUE]

\* unite_join without the link of u under v's parent.
unite_join_no_link(d, ti, u, v, queue) ==
    LET join_size == try_size(d[u])
        rs == root_size(d, v)
        d2 == [rs.data EXCEPT ![rs.root] = LinkSizeCompact_root(rs.size + join_size)]
        d3 == link_queue(d2, queue, rs.root)
    IN [data |-> d3, total_internal |-> ti + rs.size * join_size, ret |-> TRUE]

\* unite_join leaving the size of v's root as it was.
unite_join_keep_size(d, ti, u, v, queue) ==
    LET join_size == try_size(d[u])
        d1 == link(d, u, parent(d, v))
        rs == root_size(d1, v)
        d3 == link_queue(rs.data, queue, rs.root)
    IN [data |-> d3, total_internal |-> ti + rs.size * join_size, ret |-> TRUE]

\* The branch of unite taken when u is a root: join u under v's root.
unite_join(d, ti, u, v, queue) ==
    LET join_size == try_size(d[u])
        d1 == link(d, u, parent(d, v))
        rs == root_size(d1, v)
        d2 == [rs.data EXCEPT ![rs.root] = LinkSizeCompact_root(rs.size + join_size)]
        d3 == link_queue(d2, queue, rs.root)
    IN [data |-> d3, total_internal |-> ti + rs.size * join_size, ret |-> TRUE]

\* unite_loop ending only when the two points are the same point, not when
\* their parents are.
RECURSIVE unite_loop_same_point(_, _, _, _, _)
unite_loop_same_point(d, ti, u0, v0, queue) ==
    IF u0 = v0
    THEN [data |-> d, total_internal |-> ti, ret |-> FALSE]
    ELSE LET sw == parent(d, u0) > parent(d, v0)
             u == IF sw THEN v0 ELSE u0
             v == IF sw THEN u0 ELSE v0
         IN IF is_root(d[u])
            THEN unite_join(d, ti, u, v, queue)
            ELSE unite_loop_same_point(d, ti, parent(d, u), v, Append(queue, u))

\* unite_loop oriented the other way: the point with the higher parent is
\* the one walked and joined, so roots are kept at the start of the array.
RECURSIVE unite_loop_low_root(_, _, _, _, _)
unite_loop_low_root(d, ti, u0, v0, queue) ==
    IF parent(d, u0) = parent(d, v0)
    THEN [data |-> d, total_internal |-> ti, ret |-> FALSE]
    ELSE LET sw == parent(d, u0) < parent(d, v0)
             u == IF sw THEN v0 ELSE u0
             v == IF sw THEN u0 ELSE v0
         IN IF is_root(d[u])
            THEN unite_join(d, ti, u, v, queue)
            ELSE unite_loop_low_root(d, ti, parent(d, u), v, Append(queue, u))

RECURSIVE unite_loop(_, _, _, _, _)
unite_loop(d, ti, u0, v0, queue) ==
    IF parent(d, u0) = parent(d, v0)
    THEN [data |-> d, total_internal |-> ti, ret |-> FALSE]
    ELSE LET sw == parent(d, u0) > parent(d, v0)
             u == IF sw THEN v0 ELSE u0
             v == IF sw THEN u0 ELSE v0
         IN IF is_root(d[u])
            THEN unite_join(d, ti, u, v, queue)
            ELSE unite_loop(d, ti, parent(d, u), v, Append(queue, u))

\* SizedUnionFind::unite
unite(d, ti, u, v) == unite_loop(d, ti, u, v, <<>>)

\* new storing a size of 2 in every slot.
new_data_pairs(n) == [p \in 0 .. n - 1 |-> LinkSizeCompact_root(2)]

\* SizedUnionFind::new
new_data(n) == [p \in 0 .. n - 1 |-> LinkSizeCompact_root(1)]

new_total_edges(n) == (n * (n - 1)) \div 2

\* SizedUnionFind::free_edges on the current state
free_edges == total_edges - total_internal

\* SizedUnionFind::linked_edges on the current state
linked_edges == total_internal

-----------------------------------------------------------------------------
(* The fat component of the sampler.                                       *)

None == [some |-> FALSE, root |-> 0, size |-> 0, remainders |-> <<>>]

FatComponent_new(root_pt, sz) ==
    [some |-> TRUE, root |-> root_pt, size |-> sz, remainders |-> <<>>]

\* The inner scan of find_fat_component: push every w whose root is not root.
RECURSIVE collect_remainders(_, _, _, _, _)
collect_remainders(d, n, w, root_pt, acc) ==
    IF w >= n THEN [data |-> d, remainders |-> acc]
    ELSE LET r == root_size(d, w) IN
         collect_remainders(r.data, n, w + 1, root_pt,
                            IF r.root # root_pt THEN Append(acc, w) ELSE acc)

\* find_fat_scan testing size >= n, without the factor 2.
RECURSIVE find_fat_scan_whole(_, _, _)
find_fat_scan_whole(d, n, v) ==
    IF v >= n THEN [data |-> d, fat |-> None]
    ELSE LET s1 == root_size(d, v) IN
         IF s1.size >= n
         THEN LET r  == root_size(s1.data, v)
                  s2 == root_size(r.data, v)
                  c  == collect_remainders(s2.data, n, 0, r.root, <<>>)
              IN [data |-> c.data,
                  fat  |-> [FatComponent_new(r.root, s2.size)
                              EXCEPT !.remainders = c.remainders]]
         ELSE find_fat_scan_whole(s1.data, n, v + 1)

\* find_fat_scan recording the point found, not its root.
RECURSIVE find_fat_scan_point(_, _, _)
find_fat_scan_point(d, n, v) ==
    IF v >= n THEN [data |-> d, fat |-> None]
    ELSE LET s1 == root_size(d, v) IN
         IF s1.size * 2 >= n
         THEN LET s2 == root_size(s1.data, v)
                  c  == collect_remainders(s2.data, n, 0, v, <<>>)
              IN [data |-> c.data,
                  fat  |-> [FatComponent_new(v, s2.size)
                              EXCEPT !.remainders = c.remainders]]
         ELSE find_fat_scan_point(s1.data, n, v + 1)

\* The outer scan of find_fat_component, from point v on.
RECURSIVE find_fat_scan(_, _, _)
find_fat_scan(d, n, v) ==
    IF v >= n THEN [data |-> d, fat |-> None]
    ELSE LET s1 == root_size(d, v) IN
         IF s1.size * 2 >= n
         THEN LET r  == root_size(s1.data, v)
                  s2 == root_size(r.data, v)
                  c  == collect_remainders(s2.data, n, 0, r.root, <<>>)
              IN [data |-> c.data,
                  fat  |-> [FatComponent_new(r.root, s2.size)
                              EXCEPT !.remainders = c.remainders]]
         ELSE find_fat_scan(s1.data, n, v + 1)

\* sampler.rs find_fat_component
find_fat_component(d, n) == find_fat_scan(d, n, 0)

\* filter_remainders dropping the first entry whatever its root.
RECURSIVE filter_remainders_drop_first(_, _, _, _, _)
filter_remainders_drop_first(d, rem, i, root_pt, acc) ==
    IF i > Len(rem) THEN [data |-> d, remainders |-> acc]
    ELSE LET r == root_size(d, rem[i]) IN
         filter_remainders_drop_first(r.data, rem, i + 1, root_pt,
             IF r.root # root_pt /\ i > 1 THEN Append(acc, rem[i]) ELSE acc)

\* The filter of update_fat_component over remainders[i ..].
RECURSIVE filter_remainders(_, _, _, _, _)
filter_remainders(d, rem, i, root_pt, acc) ==
    IF i > Len(rem) THEN [data |-> d, remainders |-> acc]
    ELSE LET r == root_size(d, rem[i]) IN
         filter_remainders(r.data, rem, i + 1, root_pt,
                           IF r.root # root_pt THEN Append(acc, rem[i]) ELSE acc)

\* The compaction test without the factor 2.
needs_compaction_early(n, fat_size, len) == n - fat_size < len

\* The compaction test of update_fat_component.
needs_compaction(n, fat_size, len) == (n - fat_size) * 2 < len

\* update_fat_component keeping the root it was given.
update_fat_component_stale_root(d, n, component) ==
    LET s == root_size(d, component.root)
    IN IF needs_compaction(n, s.size, Len(component.remainders))
       THEN LET f == filter_remainders(s.data, component.remainders, 1, s.root, <<>>)
            IN [data |-> f.data,
                fat  |-> [component EXCEPT !.size = s.size,
                                           !.remainders = f.remainders]]
       ELSE [data |-> s.data, fat |-> [component EXCEPT !.size = s.size]]

\* sampler.rs update_fat_component
update_fat_component(d, n, component) ==
    LET r == root_size(d, component.root)
        s == root_size(r.data, r.root)
    IN IF needs_compaction(n, s.size, Len(component.remainders))
       THEN LET f == filter_remainders(s.data, component.remainders, 1, r.root, <<>>)
            IN [data |-> f.data,
                fat  |-> [component EXCEPT !.root = r.root, !.size = s.size,
                                           !.remainders = f.remainders]]
       ELSE [data |-> s.data,
             fat  |-> [component EXCEPT !.root = r.root, !.size = s.size]]

-----------------------------------------------------------------------------
(* FatComponentSampler: new, then next() one step at a time.               *)
(*   idle       between two calls of next()                                *)
(*   sparse     in the loop of sample_sparse_edge                          *)
(*   gen_bool   at the head of sample_component_edge                       *)
(*   component  in the loop of sample_component                            *)
(*   remainder  in the loop of sample_remainder, first branch              *)
(*   rem_u      in sample_remainder for u, second branch                   *)
(*   rem_v      in sample_remainder for v, second branch                   *)
(*   unite      an edge was drawn, next() is about to unite it             *)
(*   done       next() returned None                                       *)
(*   panic      the program panicked (gen_bool or gen_range)               *)

NoEdge == <<0, 0>>

\* The class of point u in partition P.
ClassOf(P, u) == CHOOSE c \in P : u \in c

\* The partition after the classes of u and v are made one.
Merge(P, u, v) ==
    (P \ {ClassOf(P, u), ClassOf(P, v)}) \cup {ClassOf(P, u) \cup ClassOf(P, v)}

\* The edge quota one short.
new_total_count_short(n) == n - 2

\* The edge quota one long.
new_total_count_long(n) == n

\* FatComponentSampler::new: the edge quota of a run on n points.
new_total_count(n) == n - 1

\* Args of a sampler that main does not drive.
NoArgs == [num_points |-> 0, num_trials |-> 0, dimension |-> 0]

\* A sampler on its own: main, run_trial and mst are not part of the run.
NoDriver ==
    /\ args = NoArgs
    /\ total_weight = 0
    /\ added = 0
    /\ results = <<>>

\* No call has been made.
NoCall == [op |-> "none"]

\* No iterator is alive.
NoIter == [slice_index |-> 0, current |-> {}, idx |-> 0, size |-> 0]

NoCalls ==
    /\ other = <<>>
    /\ iter = NoIter
    /\ out = NoCall

\* No BitVector is part of the run, and the two updates are not followed.
NoBitVector ==
    /\ vector = <<>>
    /\ elements = {}
    /\ inv_additive = 0
    /\ inv_multiplicative = 0
    /\ NoCalls

\* FatComponentSampler::new: inv_weight is 1.0.
new_inv_weight == Scale

\* SizedUnionFind::new and FatComponentSampler::new for n points.
InitWith(n, start) ==
    /\ size = n
    /\ data = new_data(n)
    /\ total_edges = new_total_edges(n)
    /\ total_internal = 0
    /\ total_count = new_total_count(n)
    /\ fat_component = None
    /\ pc = start
    /\ edge = NoEdge
    /\ emitted = 0
    /\ detections = 0
    /\ part = {{p} : p \in 0 .. n - 1}
    /\ inv_weight = new_inv_weight
    /\ weight = 0
    /\ advances = 0
    /\ rate = 0

Sizes == (2 .. MaxN) \cup {BigN}

Init == \E n \in Sizes : InitWith(n, "idle") /\ NoDriver /\ NoBitVector

\* The draws of sample_sparse_edge that are explored.
SparseDraw(u, v) == size <= MaxN \/ (v = size - 2 /\ u < size - 1)

\* The draws of the zero_dim sample_sparse_edge that are explored.
SparseDrawZ(u, v) == size <= MaxZ \/ (v = size - 2 /\ u < size - 1)

\* The match at the head of the loop of next().
loop_head(fat) == IF fat.some THEN "gen_bool" ELSE "sparse"

\* next(), lines 36-38: nothing left to sample.
next_none ==
    /\ pc = "idle"
    /\ (free_edges = 0 \/ total_count = 0)
    /\ pc' = "done"
    /\ UNCHANGED <<data, size, total_edges, total_internal, total_count,
                   fat_component, edge, emitted, detections, part>>
    /\ UNCHANGED accumulator
    /\ UNCHANGED outside

\* The detection test of next(), line 55.
threshold_met(free, total) == free * 2 < total

\* should_detect with | in place of &.
should_detect_or(free, total, fat) == threshold_met(free, total) \/ ~fat.some

\* should_detect without the test that none is tracked.
should_detect_always(free, total, fat) == threshold_met(free, total)

\* next(), line 55: look for the fat component only while none is tracked.
should_detect(free, total, fat) == threshold_met(free, total) /\ ~fat.some

\* e^(-x / free) in units of 1 / Scale, by the bound e^(-y) <= 1 / (1 + y),
\* rounded down: 1.0 for x = 0, below 1.0 and falling as x / free grows.
exp_neg(x, free) == (Scale * free) \div (free + x)

\* advance_weight adding in the approximate mode.
advance_weight_add(iw, x, free) ==
    IF free > ApproxLimit
    THEN iw + (x * Scale) \div free
    ELSE (iw * exp_neg(x, free)) \div Scale

\* weight_rate taking the number of all pairs.
weight_rate_total(free, total) == total

\* next(), lines 43 and 46: the rate the sample of Exp1 is divided by.
weight_rate(free, total) == free

\* The update of line 43 adding the quotient.
advance_additive_plus(iw, x, free) == iw + (x * Scale) \div free

\* next(), line 43: inv_weight -= x / free_edges.
advance_additive(iw, x, free) == iw - (x * Scale) \div free

\* next(), lines 45-46: inv_weight *= exp(-x / free_edges).
advance_multiplicative(iw, x, free) == (iw * exp_neg(x, free)) \div Scale

\* The test of line 42 with the comparison turned round.
approximates_below(free) == free < ApproxLimit

\* next(), line 42: whether the approximate distribution is used.
approximates(free) == free > ApproxLimit

\* next(), lines 42-47: inv_weight after a sample x of Exp1 at `free` free
\* edges.
advance_weight(iw, x, free) ==
    IF approximates(free)
    THEN advance_additive(iw, x, free)
    ELSE advance_multiplicative(iw, x, free)

\* The branch of lines 42-47 that is taken at `free` free edges.
weight_mode(free) ==
    IF approximates(free) THEN "additive" ELSE "multiplicative"

\* The samples of Exp1 that are explored.
ExpDraws == {0, 1, MaxExp}

\* In the runs of Spec one sample is explored.
ExpDraw(x) == x = 1

\* next(), lines 40-57: advance the weight, then refresh the fat component,
\* or look for it.
next_begin_sampler(x) ==
    /\ pc = "idle"
    /\ ~(free_edges = 0 \/ total_count = 0)
    /\ inv_weight' = advance_weight(inv_weight, x,
                                     weight_rate(free_edges, total_edges))
    /\ advances' = advances + 1
    /\ rate' = weight_rate(free_edges, total_edges)
    /\ weight' = weight
    /\ LET upd    == IF fat_component.some
                     THEN update_fat_component(data, size, fat_component)
                     ELSE [data |-> data, fat |-> fat_component]
           detect == should_detect(free_edges, total_edges, upd.fat)
           fnd    == IF detect THEN find_fat_component(upd.data, size) ELSE upd
       IN /\ data' = fnd.data
          /\ fat_component' = fnd.fat
          /\ detections' = detections + (IF detect THEN 1 ELSE 0)
          /\ pc' = loop_head(fnd.fat)
    /\ UNCHANGED <<size, total_edges, total_internal, total_count, edge,
                   emitted, part>>

\* next(), lines 40-57, in a run where the two updates are not followed.
next_begin(x) ==
    /\ next_begin_sampler(x)
    /\ UNCHANGED outside

\* sample_sparse_edge without the test of same_set.
sparse_accepts_any(s) == TRUE

\* What sample_sparse_edge accepts.
sparse_accepts(s) == ~s.ret

\* sample_sparse_edge: a draw that is returned.
sample_sparse_accept(u, v) ==
    /\ pc = "sparse"
    /\ LET s == same_set(data, u, v) IN
       /\ sparse_accepts(s)
       /\ data' = s.data
       /\ edge' = <<u, v>>
       /\ pc' = "unite"
    /\ UNCHANGED <<size, total_edges, total_internal, total_count,
                   fat_component, emitted, detections, part>>
    /\ UNCHANGED accumulator
    /\ UNCHANGED outside

\* sample_sparse_edge: a draw that is rejected.
sample_sparse_reject(u, v) ==
    /\ pc = "sparse"
    /\ LET s == same_set(data, u, v) IN
       /\ ~sparse_accepts(s)
       /\ data' = s.data
    /\ UNCHANGED <<size, total_edges, total_internal, total_count,
                   fat_component, pc, edge, emitted, detections, part>>
    /\ UNCHANGED accumulator
    /\ UNCHANGED outside

\* The numerator taken from the length of remainder, stale entries included.
branch_numerator_stale(fat, n) == fat.size * Len(fat.remainders)

\* The numerator with the number of points in place of remainder_size.
branch_numerator_all(fat, n) == fat.size * n

\* The numerator of the probability handed to gen_bool.
branch_numerator(fat, n) == fat.size * (n - fat.size)

\* rng.gen_bool(num / den) can return b: true needs p > 0, false needs p < 1.
gen_bool_can(num, den, b) == IF b THEN num > 0 ELSE num < den

\* sample_component_edge, line 152: gen_bool panics on p > 1.
sample_component_edge_branch(b) ==
    /\ pc = "gen_bool"
    /\ LET num == branch_numerator(fat_component, size) IN
       IF num > free_edges
       THEN pc' = "panic"
       ELSE /\ gen_bool_can(num, free_edges, b)
            /\ pc' = IF b THEN "component" ELSE "rem_u"
    /\ UNCHANGED <<data, size, total_edges, total_internal, total_count,
                   fat_component, edge, emitted, detections, part>>
    /\ UNCHANGED accumulator
    /\ UNCHANGED outside

\* What sample_component accepts.
component_accepts(r, fat) == r.root = fat.root

\* sample_component: a draw that is returned.
sample_component_accept(u) ==
    /\ pc = "component"
    /\ LET r == root_size(data, u) IN
       /\ component_accepts(r, fat_component)
       /\ data' = r.data
       /\ edge' = <<u, edge[2]>>
       /\ pc' = "remainder"
    /\ UNCHANGED <<size, total_edges, total_internal, total_count,
                   fat_component, emitted, detections, part>>
    /\ UNCHANGED accumulator
    /\ UNCHANGED outside

\* sample_component: a draw that is rejected.
sample_component_reject(u) ==
    /\ pc = "component"
    /\ LET r == root_size(data, u) IN
       /\ ~component_accepts(r, fat_component)
       /\ data' = r.data
    /\ UNCHANGED <<size, total_edges, total_internal, total_count,
                   fat_component, pc, edge, emitted, detections, part>>
    /\ UNCHANGED accumulator
    /\ UNCHANGED outside

\* sample_remainder without the test of the root.
remainder_accepts_any(r, fat) == TRUE

\* What sample_remainder accepts.
remainder_accepts(r, fat) == r.root # fat.root

\* After sample_remainder returned u at position p: the pair and where to go.
\* In the second branch the pair is tested with same_set once v is drawn.
after_remainder(p, d, e, u) ==
    IF p = "remainder" THEN [data |-> d, edge |-> <<e[1], u>>, pc |-> "unite"]
    ELSE IF p = "rem_u" THEN [data |-> d, edge |-> <<u, e[2]>>, pc |-> "rem_v"]
    ELSE LET s == same_set(d, e[1], u) IN
         [data |-> s.data, edge |-> <<e[1], u>>,
          pc |-> IF ~s.ret THEN "unite" ELSE "rem_u"]

\* sample_remainder: a draw that is returned.
sample_remainder_accept(index) ==
    /\ pc \in {"remainder", "rem_u", "rem_v"}
    /\ index <= Len(fat_component.remainders)
    /\ LET u == fat_component.remainders[index]
           r == root_size(data, u)
       IN /\ remainder_accepts(r, fat_component)
          /\ LET a == after_remainder(pc, r.data, edge, u) IN
             /\ data' = a.data
             /\ edge' = a.edge
             /\ pc' = a.pc
    /\ UNCHANGED <<size, total_edges, total_internal, total_count,
                   fat_component, emitted, detections, part>>
    /\ UNCHANGED accumulator
    /\ UNCHANGED outside

\* sample_remainder: a draw that is rejected; gen_range panics on 0..0.
sample_remainder_reject(index) ==
    /\ pc \in {"remainder", "rem_u", "rem_v"}
    /\ IF Len(fat_component.remainders) = 0
       THEN pc' = "panic" /\ data' = data
       ELSE /\ index <= Len(fat_component.remainders)
            /\ LET r == root_size(data, fat_component.remainders[index]) IN
               /\ ~remainder_accepts(r, fat_component)
               /\ data' = r.data
            /\ pc' = pc
    /\ UNCHANGED <<size, total_edges, total_internal, total_count,
                   fat_component, edge, emitted, detections, part>>
    /\ UNCHANGED accumulator
    /\ UNCHANGED outside

\* next(), lines 65-75: unite the drawn pair; on false, draw again.
next_unite ==
    /\ pc = "unite"
    /\ LET r == unite(data, total_internal, edge[1], edge[2]) IN
       /\ data' = r.data
       /\ total_internal' = r.total_internal
       /\ IF r.ret
          THEN /\ total_count' = total_count - 1
               /\ emitted' = emitted + 1
               /\ pc' = "idle"
               /\ edge' = NoEdge
          ELSE /\ pc' = loop_head(fat_component)
               /\ UNCHANGED <<total_count, emitted, edge>>
    /\ part' = Merge(part, edge[1], edge[2])
    /\ UNCHANGED <<size, total_edges, fat_component, detections>>
    /\ UNCHANGED accumulator
    /\ UNCHANGED outside

Next ==
    \/ next_none
    \/ \E x \in ExpDraws : ExpDraw(x) /\ next_begin(x)
    \/ \E u, v \in 0 .. size - 1 : SparseDraw(u, v) /\ sample_sparse_accept(u, v)
    \/ \E u, v \in 0 .. size - 1 : SparseDraw(u, v) /\ sample_sparse_reject(u, v)
    \/ \E b \in BOOLEAN : sample_component_edge_branch(b)
    \/ \E u \in 0 .. size - 1 : sample_component_accept(u)
    \/ \E u \in 0 .. size - 1 : sample_component_reject(u)
    \/ \E index \in 1 .. size : sample_remainder_accept(index)
    \/ \E index \in 1 .. size : sample_remainder_reject(index)
    \/ next_unite

Spec == Init /\ [][Next]_vars

-----------------------------------------------------------------------------
(* src/src/main.rs and src/src/complete/mod.rs: main runs num_trials trials *)
(* of run_trial, and run_trial of dimension 0 runs complete::mst, which     *)
(* builds a sampler and adds the weights it yields until it yields None.    *)
(*   main       main parsed its arguments                                   *)
(*   main_err   main returned Err                                           *)
(*   run_trial  the next trial is about to run                              *)
(*   main_done  every trial returned                                        *)
(* and the positions of next() while mst runs.                              *)

\* The runs of main that are explored: 0 .. MaxPoints points and 0 .. MaxTrials
\* trials, and one trial of the large run of BigN points, with every
\* dimension the argument parser lets through.
MaxPoints == 4

MaxTrials == 2

\* main.rs line 27: value_parser!(u32).range(0..=4)
MaxDimension == 4

\* The variables of the sampler while no sampler is alive.
NoSampler ==
    /\ size = 0
    /\ data = <<>>
    /\ total_edges = 0
    /\ total_internal = 0
    /\ total_count = 0
    /\ fat_component = None
    /\ edge = NoEdge
    /\ emitted = 0
    /\ detections = 0
    /\ part = {}
    /\ inv_weight = 0
    /\ weight = 0
    /\ advances = 0
    /\ rate = 0

sampler == <<data, size, total_edges, total_internal, total_count,
             fat_component, edge, emitted, detections, part, inv_weight,
             weight, advances, rate>>

\* A u32 with bit 31 set is written as the negative number of the same 32
\* bits: 2^32 - 1 is -1. SENTINEL itself (1 << 31) is the tag of a slot.
TagBit(n) == n < 0

\* Numbers of points with the tag bit set that are explored: u32::MAX.
TaggedPoints == {-1}

MainRuns ==
    ((0 .. MaxPoints) \X (0 .. MaxTrials)) \cup {<<BigN, 1>>}
        \cup (TaggedPoints \X {1})

InitMain ==
    /\ \E nt \in MainRuns, dim \in 0 .. MaxDimension :
          args = [num_points |-> nt[1], num_trials |-> nt[2], dimension |-> dim]
    /\ pc = "main"
    /\ NoSampler
    /\ total_weight = 0
    /\ added = 0
    /\ results = <<>>
    /\ NoBitVector

\* main, lines 56-58.
main_rejects(dimension) == dimension = 1

\* main, lines 55-58: dimension 1 is refused.
main_reject ==
    /\ pc = "main"
    /\ main_rejects(args.dimension)
    /\ pc' = "main_err"
    /\ UNCHANGED sampler
    /\ UNCHANGED outside

\* Where main is once `count` trials returned.
after_trial(count) == IF count < args.num_trials THEN "run_trial" ELSE "main_done"

\* main, lines 61-71: the trials are run.
main_dispatch ==
    /\ pc = "main"
    /\ ~main_rejects(args.dimension)
    /\ pc' = after_trial(0)
    /\ UNCHANGED sampler
    /\ UNCHANGED outside

\* run_trial, line 48: dimension 0 is the random complete graph.
run_trial_is_zero_dim(dimension) == dimension = 0

\* run_trial, line 49: any other dimension gives the weight 0.0.
run_trial_other ==
    /\ pc = "run_trial"
    /\ ~run_trial_is_zero_dim(args.dimension)
    /\ results' = Append(results, 0)
    /\ pc' = after_trial(Len(results) + 1)
    /\ UNCHANGED sampler
    /\ UNCHANGED <<args, total_weight, added, bits, modes, calls>>

\* new without its assertion.
new_asserts_nothing(n) == FALSE

\* SizedUnionFind::new, line 90: assert_eq!(size & SENTINEL, 0) fails.
new_asserts(n) == TagBit(n)

\* SizedUnionFind::new, lines 97 and 99: for size 0, `size as usize - 1`
\* overflows (a panic where overflow is checked, a wrap to 0 pairs where it is
\* not) and Uniform::new(0, 0) panics on its empty range: whichever the
\* build, new panics.
new_panics(n) == new_asserts(n) \/ n = 0

\* run_trial_zero_dim and mst, lines 9-10: the sampler is built.
mst_new ==
    /\ pc = "run_trial"
    /\ run_trial_is_zero_dim(args.dimension)
    /\ IF new_panics(args.num_points)
       THEN /\ pc' = "panic"
            /\ UNCHANGED sampler
       ELSE /\ size' = args.num_points
            /\ data' = new_data(args.num_points)
            /\ total_edges' = new_total_edges(args.num_points)
            /\ total_internal' = 0
            /\ total_count' = new_total_count(args.num_points)
            /\ fat_component' = None
            /\ pc' = "idle"
            /\ edge' = NoEdge
            /\ emitted' = 0
            /\ detections' = 0
            /\ part' = {{p} : p \in 0 .. args.num_points - 1}
            /\ inv_weight' = new_inv_weight
            /\ weight' = 0
            /\ advances' = 0
            /\ rate' = 0
    /\ total_weight' = 0
    /\ added' = 0
    /\ UNCHANGED <<args, results, bits, modes, calls>>

\* next(), lines 71-75: the weight of the edge next() returns, w.
Edge_w == Scale - inv_weight

\* What sample() yields for an edge of next(): its weight.
sample_some == Edge_w

\* mst, lines 12-14: the weight sample() yielded is added.
mst_add ==
    /\ pc = "idle"
    /\ added < emitted
    /\ total_weight' = total_weight + sample_some
    /\ added' = added + 1
    /\ UNCHANGED <<sampler, pc, args, results, bits, modes, calls>>

\* mst, line 16, and run_trial, line 51: sample() yielded None, the sum is
\* returned and the sampler and the sum dropped.
mst_return ==
    /\ pc = "done"
    /\ results' = Append(results, total_weight)
    /\ pc' = after_trial(Len(results) + 1)
    /\ size' = 0
    /\ data' = <<>>
    /\ total_edges' = 0
    /\ total_internal' = 0
    /\ total_count' = 0
    /\ fat_component' = None
    /\ edge' = NoEdge
    /\ emitted' = 0
    /\ detections' = 0
    /\ part' = {}
    /\ inv_weight' = 0
    /\ weight' = 0
    /\ advances' = 0
    /\ rate' = 0
    /\ total_weight' = 0
    /\ added' = 0
    /\ UNCHANGED <<args, bits, modes, calls>>

\* mst, line 12: sample() is called once the last weight is added.
mst_calls_sample == added = emitted

NextMain ==
    \/ main_reject
    \/ main_dispatch
    \/ run_trial_other
    \/ mst_new
    \/ mst_add
    \/ mst_return
    \/ mst_calls_sample /\ next_none
    \/ \E x \in ExpDraws : ExpDraw(x) /\ mst_calls_sample /\ next_begin(x)
    \/ \E u, v \in 0 .. size - 1 : SparseDraw(u, v) /\ sample_sparse_accept(u, v)
    \/ \E u, v \in 0 .. size - 1 : SparseDraw(u, v) /\ sample_sparse_reject(u, v)
    \/ \E b \in BOOLEAN : sample_component_edge_branch(b)
    \/ \E u \in 0 .. size - 1 : sample_component_accept(u)
    \/ \E u \in 0 .. size - 1 : sample_component_reject(u)
    \/ \E index \in 1 .. size : sample_remainder_accept(index)
    \/ \E index \in 1 .. size : sample_remainder_reject(index)
    \/ next_unite

SpecMain == InitMain /\ [][NextMain]_vars

-----------------------------------------------------------------------------
(* The disjoint-set alone: any sequence of calls on a SizedUnionFind.      *)

InitUF == \E n \in 2 .. MaxUF : InitWith(n, "uf") /\ NoDriver /\ NoBitVector

UF_unite(u, v) ==
    /\ pc = "uf"
    /\ LET r == unite(data, total_internal, u, v) IN
       /\ data' = r.data
       /\ total_internal' = r.total_internal
    /\ part' = Merge(part, u, v)
    /\ UNCHANGED <<size, total_edges, total_count, fat_component, pc, edge,
                   emitted, detections>>
    /\ UNCHANGED accumulator
    /\ UNCHANGED outside

UF_root(u) ==
    /\ pc = "uf"
    /\ LET r == root_size(data, u) IN
       /\ data' = r.data
    /\ UNCHANGED <<size, total_edges, total_internal, total_count,
                   fat_component, pc, edge, emitted, detections, part>>
    /\ UNCHANGED accumulator
    /\ UNCHANGED outside

UF_size(u) ==
    /\ pc = "uf"
    /\ LET r == root_size(data, u) IN
       /\ data' = r.data
    /\ UNCHANGED <<size, total_edges, total_internal, total_count,
                   fat_component, pc, edge, emitted, detections, part>>
    /\ UNCHANGED accumulator
    /\ UNCHANGED outside

UF_same_set(u, v) ==
    /\ pc = "uf"
    /\ LET s == same_set(data, u, v) IN
       /\ data' = s.data
    /\ UNCHANGED <<size, total_edges, total_internal, total_count,
                   fat_component, pc, edge, emitted, detections, part>>
    /\ UNCHANGED accumulator
    /\ UNCHANGED outside

NextUF ==
    \/ \E u, v \in 0 .. size - 1 : UF_unite(u, v)
    \/ \E u \in 0 .. size - 1 : UF_root(u)
    \/ \E u \in 0 .. size - 1 : UF_size(u)
    \/ \E u, v \in 0 .. size - 1 : UF_same_set(u, v)

SpecUF == InitUF /\ [][NextUF]_vars

-----------------------------------------------------------------------------
(* The sampler across the limit of the approximate accumulation: a run on  *)
(* the fewest points that have more than ApproxLimit pairs (2^10 points    *)
(* have), in which the k-th edge drawn joins point k to the component of   *)
(* points 0 .. k - 1, followed until free_edges is WBelow under the limit, *)
(* with every sample of ExpDraws.                                          *)

WN ==
    CHOOSE n \in 2 .. 2 ^ 10 :
        new_total_edges(n) > ApproxLimit /\ new_total_edges(n - 1) <= ApproxLimit

InitW == InitWith(WN, "idle") /\ NoDriver /\ NoBitVector

NextW ==
    \/ \E x \in ExpDraws : free_edges + WBelow > ApproxLimit /\ next_begin(x)
    \/ sample_sparse_accept(emitted, emitted + 1)
    \/ sample_sparse_reject(emitted, emitted)
    \/ next_unite

SpecW == InitW /\ [][NextW]_vars

-----------------------------------------------------------------------------
(* The two updates of inv_weight side by side: the runs of the sampler on  *)
(* 2 .. MaxModes points with every sample of ExpDraws, and the run of      *)
(* SpecW across the limit, in which inv_additive and inv_multiplicative    *)
(* take, at every call of next(), the sample and the free_edges that       *)
(* inv_weight takes, each through one of the two updates only.             *)

MaxModes == 3

InitModes ==
    /\ \E n \in (2 .. MaxModes) \cup {WN} : InitWith(n, "idle")
    /\ NoDriver
    /\ vector = <<>>
    /\ elements = {}
    /\ inv_additive = new_inv_weight
    /\ inv_multiplicative = new_inv_weight
    /\ NoCalls

\* next(), lines 40-57, with lines 43 and 46 each applied to its own
\* accumulator on the sample and the free_edges of the call.
modes_next_begin(x) ==
    /\ next_begin_sampler(x)
    /\ inv_additive' =
          advance_additive(inv_additive, x,
                           weight_rate(free_edges, total_edges))
    /\ inv_multiplicative' =
          advance_multiplicative(inv_multiplicative, x,
                                 weight_rate(free_edges, total_edges))
    /\ out' = [op |-> "next", x |-> x,
               mode |-> weight_mode(weight_rate(free_edges, total_edges))]
    /\ UNCHANGED <<driver, bits, other, iter>>

\* The calls of next() that are explored: all of a small run, and those of
\* the large run down to WBelow under the limit.
ModesCall == size <= MaxModes \/ free_edges + WBelow > ApproxLimit

\* The draws of sample_sparse_edge that are explored: all in a small run, and
\* in the large run those among point k and the points 0 .. k - 1 it joins.
ModesPoints ==
    IF size <= MaxModes THEN 0 .. size - 1 ELSE {emitted, emitted + 1}

NextModes ==
    \/ next_none
    \/ \E x \in ExpDraws : ModesCall /\ modes_next_begin(x)
    \/ \E u, v \in ModesPoints : sample_sparse_accept(u, v)
    \/ \E u, v \in ModesPoints : sample_sparse_reject(u, v)
    \/ next_unite

SpecModes == InitModes /\ [][NextModes]_vars

-----------------------------------------------------------------------------
(* src/src/zero_dim: RemUnionFind keeps parents and sizes in two vectors;  *)
(* in a zero_dim run data[u] is the pair (parents[u], sizes[u]). A root is *)
(* its own parent, and sizes[u] is read only while u is a root.            *)

Rem_new_data(n) == [p \in 0 .. n - 1 |-> [parent |-> p, size |-> 1]]

Rem_parent(d, u) == d[u].parent

Rem_is_root(d, u) == Rem_parent(d, u) = u

Rem_link(d, src, dst) == [d EXCEPT ![src].parent = dst]

\* The loop of RemUnionFind::root.
RECURSIVE Rem_root_loop(_, _)
Rem_root_loop(d, r) ==
    IF Rem_is_root(d, r) THEN r ELSE Rem_root_loop(d, Rem_parent(d, r))

\* RemUnionFind::root: u is linked to the root found.
Rem_root(d, u) ==
    LET r == Rem_root_loop(d, u) IN [data |-> Rem_link(d, u, r), root |-> r]

\* RemUnionFind::size
Rem_size(d, u) ==
    LET r == Rem_root(d, u) IN [data |-> r.data, size |-> r.data[r.root].size]

\* The loop of RemUnionFind::same_set: both points step until both are roots.
RECURSIVE Rem_same_set_loop(_, _, _)
Rem_same_set_loop(d, u, v) ==
    IF ~Rem_is_root(d, u) \/ ~Rem_is_root(d, v)
    THEN Rem_same_set_loop(d, Rem_parent(d, u), Rem_parent(d, v))
    ELSE <<u, v>>

\* RemUnionFind::same_set
Rem_same_set(d, u_orig, v_orig) ==
    LET uv == Rem_same_set_loop(d, u_orig, v_orig)
        d1 == Rem_link(d, u_orig, uv[1])
        d2 == Rem_link(d1, v_orig, uv[2])
    IN [data |-> d2, ret |-> (uv[1] = uv[2])]

\* RemUnionFind::add_size_to_root: returns the size the root had.
Rem_add_size_to_root(d, point, sz) ==
    LET r == Rem_root(d, point)
        original_size == r.data[r.root].size
    IN [data |-> [r.data EXCEPT ![r.root].size = original_size + sz],
        size |-> original_size, root |-> r.root]

\* The branch of RemUnionFind::unite taken when u is a root.
Rem_unite_join(d, ti, u, v) ==
    LET join_size == d[u].size
        d1 == Rem_link(d, u, Rem_parent(d, v))
        a == Rem_add_size_to_root(d1, v, join_size)
    IN [data |-> a.data, total_internal |-> ti + a.size * join_size,
        ret |-> TRUE, size |-> a.size, root |-> a.root]

\* The loop of RemUnionFind::unite; ret is FALSE for None.
RECURSIVE Rem_unite_loop(_, _, _, _)
Rem_unite_loop(d, ti, u0, v0) ==
    IF Rem_parent(d, u0) = Rem_parent(d, v0)
    THEN [data |-> d, total_internal |-> ti, ret |-> FALSE]
    ELSE LET sw == Rem_parent(d, u0) > Rem_parent(d, v0)
             u == IF sw THEN v0 ELSE u0
             v == IF sw THEN u0 ELSE v0
         IN IF Rem_is_root(d, u)
            THEN Rem_unite_join(d, ti, u, v)
            ELSE Rem_unite_loop(Rem_link(d, u, Rem_parent(d, v)), ti,
                                Rem_parent(d, u), v)

\* RemUnionFind::unite
Rem_unite(d, ti, u, v) == Rem_unite_loop(d, ti, u, v)

-----------------------------------------------------------------------------
(* src/src/zero_dim/sampler.rs: sample() one step at a time, at the        *)
(* positions of next() with z_ before them.                                *)

\* The inner scan of zero_dim find_fat_component.
RECURSIVE zd_collect_remainders(_, _, _, _, _)
zd_collect_remainders(d, n, w, root_pt, rems) ==
    IF w >= n THEN [data |-> d, remainders |-> rems]
    ELSE LET r == Rem_root(d, w) IN
         zd_collect_remainders(r.data, n, w + 1, root_pt,
                               IF r.root # root_pt THEN Append(rems, w) ELSE rems)

\* The outer scan of zero_dim find_fat_component, from point v on.
RECURSIVE zd_find_fat_scan(_, _, _)
zd_find_fat_scan(d, n, v) ==
    IF v >= n THEN [data |-> d, fat |-> None]
    ELSE LET s1 == Rem_size(d, v) IN
         IF s1.size * 2 >= n
         THEN LET r  == Rem_root(s1.data, v)
                  s2 == Rem_size(r.data, v)
                  c  == zd_collect_remainders(s2.data, n, 0, r.root, <<>>)
              IN [data |-> c.data,
                  fat  |-> [FatComponent_new(r.root, s2.size)
                              EXCEPT !.remainders = c.remainders]]
         ELSE zd_find_fat_scan(s1.data, n, v + 1)

zd_find_fat_component(d, n) == zd_find_fat_scan(d, n, 0)

\* The filter of zero_dim update_fat_component over remainders[i ..].
RECURSIVE zd_filter_remainders(_, _, _, _, _)
zd_filter_remainders(d, rem, i, root_pt, rems) ==
    IF i > Len(rem) THEN [data |-> d, remainders |-> rems]
    ELSE LET r == Rem_root(d, rem[i]) IN
         zd_filter_remainders(r.data, rem, i + 1, root_pt,
                              IF r.root # root_pt THEN Append(rems, rem[i]) ELSE rems)

zd_update_fat_component(d, n, component) ==
    LET r == Rem_root(d, component.root)
        s == Rem_size(r.data, r.root)
    IN IF needs_compaction(n, s.size, Len(component.remainders))
       THEN LET f == zd_filter_remainders(s.data, component.remainders, 1,
                                          r.root, <<>>)
            IN [data |-> f.data,
                fat  |-> [component EXCEPT !.root = r.root, !.size = s.size,
                                           !.remainders = f.remainders]]
       ELSE [data |-> s.data,
             fat  |-> [component EXCEPT !.root = r.root, !.size = s.size]]

\* zero_dim FatComponentSampler::new for n points.
InitZ ==
    \E n \in (2 .. MaxZ) \cup {BigN} :
        /\ size = n
        /\ data = Rem_new_data(n)
        /\ total_edges = new_total_edges(n)
        /\ total_internal = 0
        /\ total_count = new_total_count(n)
        /\ fat_component = None
        /\ pc = "z_idle"
        /\ edge = NoEdge
        /\ emitted = 0
        /\ detections = 0
        /\ part = {{p} : p \in 0 .. n - 1}
        /\ inv_weight = 0
        /\ weight = 0
        /\ advances = 0
        /\ rate = 0
        /\ NoDriver
        /\ NoBitVector

\* The match of sample(), lines 59-62.
zd_match(fat) == IF fat.some THEN "z_gen_bool" ELSE "z_sparse"

\* sample(), lines 42-44.
zd_sample_none ==
    /\ pc = "z_idle"
    /\ (free_edges = 0 \/ total_count = 0)
    /\ pc' = "z_done"
    /\ UNCHANGED <<data, size, total_edges, total_internal, total_count,
                   fat_component, edge, emitted, detections, part>>
    /\ UNCHANGED accumulator
    /\ UNCHANGED outside

\* sample(), line 47: weight after a sample x of Exp1 at `free` free edges.
zd_advance_weight(w, x, free) == w + (x * Scale) \div free

\* sample(), lines 46-57: advance the weight, then refresh the fat component,
\* or look for it.
zd_sample_begin(x) ==
    /\ pc = "z_idle"
    /\ ~(free_edges = 0 \/ total_count = 0)
    /\ weight' = zd_advance_weight(weight, x, weight_rate(free_edges, total_edges))
    /\ advances' = advances + 1
    /\ rate' = weight_rate(free_edges, total_edges)
    /\ LET upd    == IF fat_component.some
                     THEN zd_update_fat_component(data, size, fat_component)
                     ELSE [data |-> data, fat |-> fat_component]
           detect == should_detect(free_edges, total_edges, upd.fat)
           fnd    == IF detect THEN zd_find_fat_component(upd.data, size) ELSE upd
       IN /\ data' = fnd.data
          /\ fat_component' = fnd.fat
          /\ detections' = detections + (IF detect THEN 1 ELSE 0)
          /\ pc' = zd_match(fnd.fat)
    /\ UNCHANGED <<size, total_edges, total_internal, total_count, edge,
                   emitted, part, inv_weight>>
    /\ UNCHANGED outside

\* zero_dim sample_sparse_edge: one draw, returned or rejected.
zd_sample_sparse_edge(u, v) ==
    /\ pc = "z_sparse"
    /\ LET s == Rem_same_set(data, u, v) IN
       /\ data' = s.data
       /\ IF ~s.ret
          THEN edge' = <<u, v>> /\ pc' = "z_unite"
          ELSE UNCHANGED <<edge, pc>>
    /\ UNCHANGED <<size, total_edges, total_internal, total_count,
                   fat_component, emitted, detections, part>>
    /\ UNCHANGED accumulator
    /\ UNCHANGED outside

\* zero_dim sample_component_edge, line 130: gen_bool panics on p > 1.
zd_sample_component_edge(b) ==
    /\ pc = "z_gen_bool"
    /\ LET num == branch_numerator(fat_component, size) IN
       IF num > free_edges
       THEN pc' = "z_panic"
       ELSE /\ gen_bool_can(num, free_edges, b)
            /\ pc' = IF b THEN "z_component" ELSE "z_rem_u"
    /\ UNCHANGED <<data, size, total_edges, total_internal, total_count,
                   fat_component, edge, emitted, detections, part>>
    /\ UNCHANGED accumulator
    /\ UNCHANGED outside

\* zero_dim sample_component: one draw, returned or rejected.
zd_sample_component(u) ==
    /\ pc = "z_component"
    /\ LET r == Rem_root(data, u) IN
       /\ data' = r.data
       /\ IF r.root = fat_component.root
          THEN edge' = <<u, edge[2]>> /\ pc' = "z_remainder"
          ELSE UNCHANGED <<edge, pc>>
    /\ UNCHANGED <<size, total_edges, total_internal, total_count,
                   fat_component, emitted, detections, part>>
    /\ UNCHANGED accumulator
    /\ UNCHANGED outside

\* After zero_dim sample_remainder returned u at position p.
zd_after_remainder(p, d, e, u) ==
    IF p = "z_remainder"
    THEN [data |-> d, edge |-> <<e[1], u>>, pc |-> "z_unite"]
    ELSE IF p = "z_rem_u"
    THEN [data |-> d, edge |-> <<u, e[2]>>, pc |-> "z_rem_v"]
    ELSE LET s == Rem_same_set(d, e[1], u) IN
         [data |-> s.data, edge |-> <<e[1], u>>,
          pc |-> IF ~s.ret THEN "z_unite" ELSE "z_rem_u"]

\* zero_dim sample_remainder: one draw, returned or rejected; gen_range
\* panics on 0..0.
zd_sample_remainder(index) ==
    /\ pc \in {"z_remainder", "z_rem_u", "z_rem_v"}
    /\ IF Len(fat_component.remainders) = 0
       THEN pc' = "z_panic" /\ UNCHANGED <<data, edge>>
       ELSE /\ index <= Len(fat_component.remainders)
            /\ LET u == fat_component.remainders[index]
                   r == Rem_root(data, u)
                   a == zd_after_remainder(pc, r.data, edge, u)
               IN IF r.root # fat_component.root
                  THEN data' = a.data /\ edge' = a.edge /\ pc' = a.pc
                  ELSE data' = r.data /\ UNCHANGED <<edge, pc>>
    /\ UNCHANGED <<size, total_edges, total_internal, total_count,
                   fat_component, emitted, detections, part>>
    /\ UNCHANGED accumulator
    /\ UNCHANGED outside

\* sample(), lines 64-66: unite the pair, whatever unite returns, and count
\* the edge.
zd_sample_unite ==
    /\ pc = "z_unite"
    /\ LET r == Rem_unite(data, total_internal, edge[1], edge[2]) IN
       /\ data' = r.data
       /\ total_internal' = r.total_internal
    /\ total_count' = total_count - 1
    /\ emitted' = emitted + 1
    /\ pc' = "z_idle"
    /\ edge' = NoEdge
    /\ part' = Merge(part, edge[1], edge[2])
    /\ UNCHANGED <<size, total_edges, fat_component, detections>>
    /\ UNCHANGED accumulator
    /\ UNCHANGED outside

NextZ ==
    \/ zd_sample_none
    \/ \E x \in ExpDraws : ExpDraw(x) /\ zd_sample_begin(x)
    \/ \E u, v \in 0 .. size - 1 : SparseDrawZ(u, v) /\ zd_sample_sparse_edge(u, v)
    \/ \E b \in BOOLEAN : zd_sample_component_edge(b)
    \/ \E u \in 0 .. size - 1 : zd_sample_component(u)
    \/ \E index \in 1 .. size : zd_sample_remainder(index)
    \/ zd_sample_unite

SpecZ == InitZ /\ [][NextZ]_vars

\* Both samplers: a run of the complete sampler or a run of the zero_dim one.
InitAll == Init \/ InitZ

NextAll == Next \/ NextZ

SpecAll == InitAll /\ [][NextAll]_vars

-----------------------------------------------------------------------------
(* src/src/kruskal: SizedRemUnionFind keeps parents and sizes in two        *)
(* vectors (data[u] is the pair, as above) and FatComponentGenerator keeps  *)
(* the counter of internal edges; sample_sparse one draw at a time.         *)

\* SizedRemUnionFind::new
SRUF_new_data(n) == [p \in 0 .. n - 1 |-> [parent |-> p, size |-> 1]]

\* FatComponentGenerator::new
K_new_total_edges(n) == ((n - 1) * n) \div 2

\* unite, lines 49-51: walk from v to its root.
RECURSIVE SRUF_unite_walk(_, _)
SRUF_unite_walk(d, v) ==
    IF v = d[v].parent THEN v ELSE SRUF_unite_walk(d, d[v].parent)

\* unite reporting the size of the root after the merge as the second size.
SRUF_unite_join_merged(d, u, v) ==
    LET joning_size == d[u].size
        d1 == [d EXCEPT ![u].parent = d[v].parent]
        root_pt == SRUF_unite_walk(d1, v)
        sz == d1[root_pt].size
    IN [data |-> [d1 EXCEPT ![root_pt].size = sz + joning_size],
        some |-> TRUE, ret |-> <<joning_size, sz + joning_size>>]

\* unite, lines 45-56: u is a root; ret is the pair returned in Some.
SRUF_unite_join(d, u, v) ==
    LET joning_size == d[u].size
        d1 == [d EXCEPT ![u].parent = d[v].parent]
        root_pt == SRUF_unite_walk(d1, v)
        sz == d1[root_pt].size
    IN [data |-> [d1 EXCEPT ![root_pt].size = sz + joning_size],
        some |-> TRUE, ret |-> <<joning_size, sz>>]

\* The loop of SizedRemUnionFind::unite; some is FALSE for None.
RECURSIVE SRUF_unite_loop(_, _, _)
SRUF_unite_loop(d, u0, v0) ==
    IF d[u0].parent = d[v0].parent
    THEN [data |-> d, some |-> FALSE]
    ELSE LET sw == d[u0].parent > d[v0].parent
             u == IF sw THEN v0 ELSE u0
             v == IF sw THEN u0 ELSE v0
         IN IF u = d[u].parent
            THEN SRUF_unite_join(d, u, v)
            ELSE SRUF_unite_loop([d EXCEPT ![u].parent = d[v].parent],
                                 d[u].parent, v)

\* SizedRemUnionFind::unite
SRUF_unite(d, u, v) == SRUF_unite_loop(d, u, v)

InitK ==
    \E n \in 2 .. MaxUF :
        /\ size = n
        /\ data = SRUF_new_data(n)
        /\ total_edges = K_new_total_edges(n)
        /\ total_internal = 0
        /\ total_count = n - 1
        /\ fat_component = None
        /\ pc = "k_sparse"
        /\ edge = NoEdge
        /\ emitted = 0
        /\ detections = 0
        /\ part = {{p} : p \in 0 .. n - 1}
        /\ inv_weight = new_inv_weight
        /\ weight = 0
        /\ advances = 0
        /\ rate = 0
        /\ NoDriver
        /\ NoBitVector

\* sample_sparse: a draw that unite accepts; the pair is returned.
K_sample_sparse_accept(u, v) ==
    /\ pc = "k_sparse"
    /\ LET r == SRUF_unite(data, u, v) IN
       /\ r.some
       /\ data' = r.data
       /\ total_internal' = total_internal + r.ret[1] * r.ret[2]
    /\ edge' = <<u, v>>
    /\ part' = Merge(part, u, v)
    /\ UNCHANGED <<size, total_edges, total_count, fat_component, pc, emitted,
                   detections>>
    /\ UNCHANGED accumulator
    /\ UNCHANGED outside

\* sample_sparse: a draw that unite refuses; the loop draws again.
K_sample_sparse_reject(u, v) ==
    /\ pc = "k_sparse"
    /\ LET r == SRUF_unite(data, u, v) IN
       /\ ~r.some
       /\ data' = r.data
    /\ UNCHANGED <<size, total_edges, total_internal, total_count,
                   fat_component, pc, edge, emitted, detections, part>>
    /\ UNCHANGED accumulator
    /\ UNCHANGED outside

NextK ==
    \/ \E u, v \in 0 .. size - 1 : K_sample_sparse_accept(u, v)
    \/ \E u, v \in 0 .. size - 1 : K_sample_sparse_reject(u, v)

SpecK == InitK /\ [][NextK]_vars

\* The callers of the two unites that report sizes: sample_sparse of kruskal
\* or a run of the zero_dim sampler.
InitKZ == InitK \/ InitZ

NextKZ == NextK \/ NextZ

SpecKZ == InitKZ /\ [][NextKZ]_vars

-----------------------------------------------------------------------------
(* src/src/kruskal/mod.rs: mst_total_length_fat_component drives the        *)
(* FatComponentGenerator over a SizedKruskalUnionFind. fat_component holds  *)
(* the Option<u32> in its fields some and root, and the Vec remainders.     *)
(*   kg_idle        between two calls of next()                             *)
(*   kg_sparse      in the loop of sample_sparse                            *)
(*   kg_gen_bool    sample_fat_component_edge, about to call gen_bool       *)
(*   kg_fat_vertex  first branch: in sample_fat_component_vertex            *)
(*   kg_rem         first branch: in sample_remainder_vertex                *)
(*   kg_rem_u       second branch: drawing u                                *)
(*   kg_rem_v       second branch: drawing v                                *)
(*   kg_done        the for loop of mst_total_length_fat_component ended    *)
(* Runs of 1 .. MaxKG points are explored with every draw, and one run of   *)
(* KN points, the fewest for which the fat component can be found with two  *)
(* separate points outside it; while none is tracked its sparse draws join  *)
(* point k to the points 0 .. k - 1.                                        *)

MaxKG == 5

\* A component of all but two of n points is past the threshold of line 187.
FatLeavesTwo(n) ==
    (K_new_total_edges(n) - K_new_total_edges(n - 2)) * 2 < K_new_total_edges(n)

KN == CHOOSE n \in 3 .. 16 : FatLeavesTwo(n) /\ ~FatLeavesTwo(n - 1)

\* SizedKruskalUnionFind::find: the root of the component of u.
K_find(d, u) == SRUF_unite_walk(d, u)

\* SizedKruskalUnionFind::size: the size of the component of u.
K_size(d, u) == d[K_find(d, u)].size

\* find_fat_component, lines 141-145: the points outside the component.
RECURSIVE K_push_remainders(_, _, _, _, _)
K_push_remainders(d, n, w, root_pt, rems) ==
    IF w >= n THEN rems
    ELSE K_push_remainders(d, n, w + 1, root_pt,
                           IF K_find(d, w) # root_pt
                           THEN Append(rems, w) ELSE rems)

\* find_fat_component: the first point whose component has half the points;
\* unreachable!() when there is none.
RECURSIVE K_find_fat_scan(_, _, _, _)
K_find_fat_scan(d, n, v, fat) ==
    IF v >= n THEN [fat |-> fat, panics |-> TRUE]
    ELSE IF K_size(d, v) * 2 >= n
    THEN LET root_pt == K_find(d, v) IN
         [fat |-> [fat EXCEPT !.some = TRUE, !.root = root_pt,
                              !.remainders =
                                  K_push_remainders(d, n, 0, root_pt, @)],
          panics |-> FALSE]
    ELSE K_find_fat_scan(d, n, v + 1, fat)

K_find_fat_component(d, n, fat) == K_find_fat_scan(d, n, 0, fat)

\* check_and_update_remainders, lines 158-165.
K_filter_remainders(d, rems, root_pt) ==
    SelectSeq(rems, LAMBDA v : K_find(d, v) # root_pt)

\* check_and_update_remainders
K_check_and_update_remainders(d, n, fat) ==
    IF fat.some /\ (n - K_size(d, fat.root)) * 2 < Len(fat.remainders)
    THEN [fat EXCEPT !.remainders =
                         K_filter_remainders(d, @, K_find(d, fat.root))]
    ELSE fat

InitKG ==
    /\ \E n \in (1 .. MaxKG) \cup {KN} :
          /\ size = n
          /\ data = SRUF_new_data(n)
          /\ total_edges = K_new_total_edges(n)
          /\ total_count = n - 1
          /\ part = {{p} : p \in 0 .. n - 1}
    /\ total_internal = 0
    /\ fat_component = None
    /\ pc = "kg_idle"
    /\ edge = NoEdge
    /\ emitted = 0
    /\ detections = 0
    /\ inv_weight = new_inv_weight
    /\ weight = 0
    /\ advances = 0
    /\ rate = 0
    /\ NoDriver
    /\ NoBitVector

\* next(), lines 177-180: no active edge is left, the for loop ends.
KG_next_none ==
    /\ pc = "kg_idle"
    /\ free_edges = 0
    /\ pc' = "kg_done"
    /\ UNCHANGED <<data, size, total_edges, total_internal, total_count,
                   fat_component, edge, emitted, detections, part>>
    /\ UNCHANGED accumulator
    /\ UNCHANGED outside

\* next(), lines 182-194: inv_min and weight advance (r.powf(1 / active_edges)
\* is e^(-x / active_edges) for the sample x = -ln r of Exp1), the remainders
\* are refreshed, the fat component is looked for.
KG_next_begin(x, y) ==
    /\ pc = "kg_idle"
    /\ free_edges # 0
    /\ inv_weight' = advance_multiplicative(inv_weight, x, free_edges)
    /\ weight' = zd_advance_weight(weight, y, free_edges)
    /\ advances' = advances + 1
    /\ rate' = free_edges
    /\ LET upd    == K_check_and_update_remainders(data, size, fat_component)
           detect == free_edges * 2 < total_edges /\ ~upd.some
           fnd    == IF detect THEN K_find_fat_component(data, size, upd)
                     ELSE [fat |-> upd, panics |-> FALSE]
       IN /\ fat_component' = fnd.fat
          /\ detections' = detections + (IF detect THEN 1 ELSE 0)
          /\ pc' = IF fnd.panics THEN "panic"
                   ELSE IF fnd.fat.some THEN "kg_gen_bool" ELSE "kg_sparse"
    /\ UNCHANGED <<data, size, total_edges, total_internal, total_count, edge,
                   emitted, part>>
    /\ UNCHANGED outside

\* Where the for loop of mst_total_length_fat_component is once next()
\* returned Some with `count` yields to go: lines 206-211.
KG_after_yield(count) == IF count = 0 THEN "kg_done" ELSE "kg_idle"

\* sample_sparse: a draw that unite accepts; next() returns Some.
KG_sample_sparse_accept(u, v) ==
    /\ pc = "kg_sparse"
    /\ LET r == SRUF_unite(data, u, v) IN
       /\ r.some
       /\ data' = r.data
       /\ total_internal' = total_internal + r.ret[1] * r.ret[2]
    /\ edge' = <<u, v>>
    /\ part' = Merge(part, u, v)
    /\ emitted' = emitted + 1
    /\ total_count' = total_count - 1
    /\ pc' = KG_after_yield(total_count - 1)
    /\ UNCHANGED <<size, total_edges, fat_component, detections>>
    /\ UNCHANGED accumulator
    /\ UNCHANGED outside

\* sample_sparse: a draw that unite refuses; the loop draws again.
KG_sample_sparse_reject(u, v) ==
    /\ pc = "kg_sparse"
    /\ LET r == SRUF_unite(data, u, v) IN
       /\ ~r.some
       /\ data' = r.data
    /\ UNCHANGED <<size, total_edges, total_internal, total_count,
                   fat_component, pc, edge, emitted, detections, part>>
    /\ UNCHANGED accumulator
    /\ UNCHANGED outside

\* sample_fat_component_edge, lines 111-118: gen_bool panics on p > 1.
KG_sample_fat_component_edge(b) ==
    /\ pc = "kg_gen_bool"
    /\ LET fat_size == K_size(data, fat_component.root)
           remainder_size == size - fat_size
       IN IF fat_size * remainder_size > free_edges
          THEN pc' = "panic"
          ELSE /\ gen_bool_can(fat_size * remainder_size, free_edges, b)
               /\ pc' = IF b THEN "kg_fat_vertex" ELSE "kg_rem_u"
    /\ UNCHANGED <<data, size, total_edges, total_internal, total_count,
                   fat_component, edge, emitted, detections, part>>
    /\ UNCHANGED accumulator
    /\ UNCHANGED outside

\* sample_fat_component_vertex: a draw; one outside the component is drawn
\* again.
KG_sample_fat_component_vertex(u) ==
    /\ pc = "kg_fat_vertex"
    /\ IF K_find(data, u) = fat_component.root
       THEN edge' = <<u, edge[2]>> /\ pc' = "kg_rem"
       ELSE UNCHANGED <<edge, pc>>
    /\ UNCHANGED <<data, size, total_edges, total_internal, total_count,
                   fat_component, emitted, detections, part>>
    /\ UNCHANGED accumulator
    /\ UNCHANGED outside

\* What sample_remainder_vertex accepts.
KG_remainder_accepts(d, u, fat) == K_find(d, u) # fat.root

\* sample_remainder_vertex in the first branch, lines 119-123: the pair is
\* returned as it is, and next() returns Some. gen_range panics on 0..0.
KG_sample_remainder_first(index) ==
    /\ pc = "kg_rem"
    /\ IF Len(fat_component.remainders) = 0
       THEN /\ pc' = "panic"
            /\ UNCHANGED <<edge, emitted, total_count>>
       ELSE /\ index <= Len(fat_component.remainders)
            /\ LET u == fat_component.remainders[index] IN
               IF KG_remainder_accepts(data, u, fat_component)
               THEN /\ edge' = <<edge[1], u>>
                    /\ emitted' = emitted + 1
                    /\ total_count' = total_count - 1
                    /\ pc' = KG_after_yield(total_count - 1)
               ELSE UNCHANGED <<edge, emitted, total_count, pc>>
    /\ UNCHANGED <<data, size, total_edges, total_internal, fat_component,
                   detections, part>>
    /\ UNCHANGED accumulator
    /\ UNCHANGED outside

\* sample_remainder_vertex in the second branch, line 126: u is drawn.
KG_sample_remainder_u(index) ==
    /\ pc = "kg_rem_u"
    /\ IF Len(fat_component.remainders) = 0
       THEN pc' = "panic" /\ edge' = edge
       ELSE /\ index <= Len(fat_component.remainders)
            /\ LET u == fat_component.remainders[index] IN
               IF KG_remainder_accepts(data, u, fat_component)
               THEN edge' = <<u, edge[2]>> /\ pc' = "kg_rem_v"
               ELSE UNCHANGED <<edge, pc>>
    /\ UNCHANGED <<data, size, total_edges, total_internal, total_count,
                   fat_component, emitted, detections, part>>
    /\ UNCHANGED accumulator
    /\ UNCHANGED outside

\* The second branch, lines 127-131: v is drawn and the pair united; on Some
\* next() returns Some, on None u is drawn again.
KG_sample_remainder_v(index) ==
    /\ pc = "kg_rem_v"
    /\ index <= Len(fat_component.remainders)
    /\ LET v == fat_component.remainders[index] IN
       IF KG_remainder_accepts(data, v, fat_component)
       THEN LET r == SRUF_unite(data, edge[1], v) IN
            /\ data' = r.data
            /\ edge' = <<edge[1], v>>
            /\ IF r.some
               THEN /\ total_internal' = total_internal + r.ret[1] * r.ret[2]
                    /\ part' = Merge(part, edge[1], v)
                    /\ emitted' = emitted + 1
                    /\ total_count' = total_count - 1
                    /\ pc' = KG_after_yield(total_count - 1)
               ELSE /\ pc' = "kg_rem_u"
                    /\ UNCHANGED <<total_internal, part, emitted, total_count>>
       ELSE UNCHANGED <<data, edge, total_internal, part, emitted, total_count,
                        pc>>
    /\ UNCHANGED <<size, total_edges, fat_component, detections>>
    /\ UNCHANGED accumulator
    /\ UNCHANGED outside

\* The draws of sample_sparse that are explored.
KG_SparsePoints == IF size <= MaxKG THEN 0 .. size - 1 ELSE {emitted, emitted + 1}

NextKG ==
    \/ KG_next_none
    \/ \E x, y \in ExpDraws : ExpDraw(x) /\ ExpDraw(y) /\ KG_next_begin(x, y)
    \/ \E u, v \in KG_SparsePoints : KG_sample_sparse_accept(u, v)
    \/ \E u, v \in KG_SparsePoints : KG_sample_sparse_reject(u, v)
    \/ \E b \in BOOLEAN : KG_sample_fat_component_edge(b)
    \/ \E u \in 0 .. size - 1 : KG_sample_fat_component_vertex(u)
    \/ \E index \in 1 .. size : KG_sample_remainder_first(index)
    \/ \E index \in 1 .. size : KG_sample_remainder_u(index)
    \/ \E index \in 1 .. size : KG_sample_remainder_v(index)

SpecKG == InitKG /\ [][NextKG]_vars

-----------------------------------------------------------------------------
(* src/src/fat_component.rs: mst sums what its FatComponentGenerator yields *)
(* over a FatComponentUnionFind.                                            *)
(*   fc_idle    between two calls of next()                                 *)
(*   fc_sparse  in the loop of sample_sparse                                *)
(*   fc_fat     sample() with a fat component                               *)
(*   fc_done    next() returned None and sum() returned                     *)
(* fat_component is assigned in unite only (lines 159-183), and nothing     *)
(* that mst runs calls unite: the calls in sample() are comments (lines     *)
(* 216, 223 and 229). A run is followed for MaxYields values yielded.       *)

MaxFC == 4

MaxYields == 4

\* FatComponentUnionFind::new: parents and sizes.
FC_new_data(n) == [p \in 0 .. n - 1 |-> [parent |-> p, size |-> 1]]

\* FatComponentUnionFind::new: total_edges.
FC_new_total_edges(n) == (n * (n - 1)) \div 2

\* FatComponentUnionFind::root
RECURSIVE FC_root(_, _)
FC_root(d, point) ==
    IF d[point].parent = point THEN point ELSE FC_root(d, d[point].parent)

\* FatComponentUnionFind::same_set
FC_same_set(d, first, second) == FC_root(d, first) = FC_root(d, second)

\* FatComponentUnionFind::active_edges
FC_active_edges == total_edges - total_internal

InitFC ==
    /\ \E n \in 1 .. MaxFC :
          /\ size = n
          /\ data = FC_new_data(n)
          /\ total_edges = FC_new_total_edges(n)
          /\ part = {{p} : p \in 0 .. n - 1}
    /\ total_internal = 0
    /\ total_count = 0
    /\ fat_component = None
    /\ pc = "fc_idle"
    /\ edge = NoEdge
    /\ emitted = 0
    /\ detections = 0
    /\ inv_weight = 0
    /\ weight = 0
    /\ advances = 0
    /\ rate = 0
    /\ NoDriver
    /\ NoBitVector

\* next(), lines 86-89, and sum(): no active edge, the sum is returned.
FC_next_none ==
    /\ pc = "fc_idle"
    /\ FC_active_edges = 0
    /\ pc' = "fc_done"
    /\ UNCHANGED <<data, size, total_edges, total_internal, total_count,
                   fat_component, edge, emitted, detections, part>>
    /\ UNCHANGED accumulator
    /\ UNCHANGED outside

\* next(), lines 91-92: the weight advances and sample() is entered.
FC_next_begin(x) ==
    /\ pc = "fc_idle"
    /\ FC_active_edges # 0
    /\ emitted < MaxYields
    /\ weight' = zd_advance_weight(weight, x, FC_active_edges)
    /\ advances' = advances + 1
    /\ rate' = FC_active_edges
    /\ pc' = IF fat_component.some THEN "fc_fat" ELSE "fc_sparse"
    /\ UNCHANGED <<data, size, total_edges, total_internal, total_count,
                   fat_component, edge, emitted, detections, part, inv_weight>>
    /\ UNCHANGED outside

\* sample_sparse: a pair of two components is returned; sample() drops it
\* (line 229), next() returns Some(weight) and sum() adds it.
FC_sample_sparse_accept(first, second) ==
    /\ pc = "fc_sparse"
    /\ ~FC_same_set(data, first, second)
    /\ edge' = <<first, second>>
    /\ emitted' = emitted + 1
    /\ total_weight' = total_weight + weight
    /\ pc' = "fc_idle"
    /\ UNCHANGED <<data, size, total_edges, total_internal, total_count,
                   fat_component, detections, part>>
    /\ UNCHANGED accumulator
    /\ UNCHANGED <<args, added, results, bits, modes, calls>>

\* sample_sparse: a pair inside one component is drawn again.
FC_sample_sparse_reject(first, second) ==
    /\ pc = "fc_sparse"
    /\ FC_same_set(data, first, second)
    /\ UNCHANGED <<data, size, total_edges, total_internal, total_count,
                   fat_component, pc, edge, emitted, detections, part>>
    /\ UNCHANGED accumulator
    /\ UNCHANGED outside

NextFC ==
    \/ FC_next_none
    \/ \E x \in ExpDraws : FC_next_begin(x)
    \/ \E first, second \in 0 .. size - 1 : FC_sample_sparse_accept(first, second)
    \/ \E first, second \in 0 .. size - 1 : FC_sample_sparse_reject(first, second)

SpecFC == InitFC /\ [][NextFC]_vars

-----------------------------------------------------------------------------
(* src/src/euclidean/morton.rs: morton_encode_2. A u32 is the set of the    *)
(* positions of its bits that are 1, position 0 the least significant.      *)

MaxRun == 1

u32_bits == 0 .. 31

\* x << amount on a u32: the bits moved past position 31 are lost.
shl32(x, amount) == {b + amount : b \in x} \cap u32_bits

\* The masks of space_bits_2.
b_1 == {b \in u32_bits : b % 2 < 1}
b_2 == {b \in u32_bits : b % 4 < 2}
b_4 == {b \in u32_bits : b % 8 < 4}
b_8 == {b \in u32_bits : b % 16 < 8}

\* space_bits_2
space_bits_2(x) ==
    LET x8 == (x \cup shl32(x, 8)) \cap b_8
        x4 == (x8 \cup shl32(x8, 4)) \cap b_4
        x2 == (x4 \cup shl32(x4, 2)) \cap b_2
        x1 == (x2 \cup shl32(x2, 1)) \cap b_1
    IN  x1

morton_encode_2_unshifted(point) ==
    space_bits_2(point[1]) \cup space_bits_2(point[2])

\* morton_encode_2: point[0] and point[1] of the code are point[1] and
\* point[2] here.
morton_encode_2(point) ==
    space_bits_2(point[1]) \cup shl32(space_bits_2(point[2]), 1)

\* The 16-bit coordinates that are encoded: 0, the run of MaxRun bits from
\* every position, 0b1111 of tests::simple_2 and 0xFFFF.
Coordinates ==
    {{}, 0 .. 3, 0 .. 15}
        \cup {{b \in 0 .. 15 : i <= b /\ b < i + MaxRun} : i \in 0 .. 15}

InitMorton ==
    /\ pc = "morton"
    /\ NoSampler
    /\ NoDriver
    /\ NoBitVector

\* A call of morton_encode_2([x, y]). Two calls are followed, and the first
\* is kept beside the second.
\*   morton         no call yet
\*   morton_called  one call returned
\*   morton_pair    two calls returned
Morton_encode_2(x, y) ==
    /\ pc \in {"morton", "morton_called"}
    /\ pc' = IF pc = "morton" THEN "morton_called" ELSE "morton_pair"
    /\ out' = [op |-> "morton_encode_2",
               point |-> <<x, y>>,
               code |-> morton_encode_2(<<x, y>>),
               before |-> IF pc = "morton_called"
                          THEN [point |-> out.point, code |-> out.code]
                          ELSE [point |-> <<x, y>>,
                                code |-> morton_encode_2(<<x, y>>)]]
    /\ UNCHANGED <<sampler, driver, bits, modes, other, iter>>

NextMorton == \E x, y \in Coordinates : Morton_encode_2(x, y)

SpecMorton == InitMorton /\ [][NextMorton]_vars

-----------------------------------------------------------------------------
(* src/src/bitvector.rs: a set of numbers kept in a Vec<u64>, one bit per    *)
(* number. A u64 is modelled as the set of the positions of its set bits:   *)
(* 1 << k is {k}, | is the union, & !mask the difference, != 0 non-empty.   *)
(* Word w of the Vec is vector[w + 1].                                      *)

\* The numbers explored are the first two bits and the last bit of each of
\* the words 0 .. MaxWord.
MaxWord == 2

BitValues == {64 * w + o : w \in 0 .. MaxWord, o \in {0, 1, 63}}

u64s(elts) == (elts + 63) \div 64

word_mask(index) == [word |-> index \div 64, mask |-> {index % 64}]

\* BitVector::new
BitVector_new(nbits) == [w \in 1 .. u64s(nbits) |-> {}]

\* BitVector::capacity
BitVector_capacity(vec) == Len(vec) * 8 * 8

\* BitVector::grow: resize(num_words, 0) appends zero words.
BitVector_grow(vec, num_bits) ==
    LET num_words == u64s(num_bits) IN
    IF Len(vec) < num_words
    THEN [w \in 1 .. num_words |-> IF w <= Len(vec) THEN vec[w] ELSE {}]
    ELSE vec

\* BitVector::contains
BitVector_contains(vec, bit) ==
    IF bit >= BitVector_capacity(vec)
    THEN FALSE
    ELSE LET wm == word_mask(bit) IN (vec[wm.word + 1] \cap wm.mask) # {}

\* BitVector::insert
BitVector_insert(vec, bit) ==
    LET grown == IF bit >= BitVector_capacity(vec)
                 THEN BitVector_grow(vec, bit + 1) ELSE vec
        wm == word_mask(bit)
        value == grown[wm.word + 1]
        new_value == value \cup wm.mask
    IN [vector |-> [grown EXCEPT ![wm.word + 1] = new_value],
        ret |-> new_value # value, panics |-> FALSE]

\* BitVector::remove: self.vector[word] panics when word is not an index of
\* the Vec.
BitVector_remove(vec, bit) ==
    LET wm == word_mask(bit) IN
    IF wm.word >= Len(vec)
    THEN [vector |-> vec, ret |-> FALSE, panics |-> TRUE]
    ELSE LET value == vec[wm.word + 1]
             new_value == value \ wm.mask
         IN [vector |-> [vec EXCEPT ![wm.word + 1] = new_value],
             ret |-> new_value # value, panics |-> FALSE]

InitBV ==
    /\ \E nbits \in BitValues : vector = BitVector_new(nbits)
    /\ elements = {}
    /\ pc = "bv"
    /\ NoSampler
    /\ NoDriver
    /\ inv_additive = 0
    /\ inv_multiplicative = 0
    /\ NoCalls

BV_insert(bit) ==
    /\ pc = "bv"
    /\ vector' = BitVector_insert(vector, bit).vector
    /\ elements' = elements \cup {bit}
    /\ UNCHANGED <<sampler, pc, driver, modes, calls>>

BV_remove(bit) ==
    /\ pc = "bv"
    /\ LET r == BitVector_remove(vector, bit) IN
       /\ vector' = r.vector
       /\ pc' = IF r.panics THEN "bv_panic" ELSE pc
    /\ elements' = elements \ {bit}
    /\ UNCHANGED <<sampler, driver, modes, calls>>

BV_contains(bit) ==
    /\ pc = "bv"
    /\ BitVector_contains(vector, bit) \in BOOLEAN
    /\ UNCHANGED <<sampler, pc, driver, bits, modes, calls>>

NextBV ==
    \/ \E bit \in BitValues : BV_insert(bit)
    \/ \E bit \in BitValues : BV_remove(bit)
    \/ \E bit \in BitValues : BV_contains(bit)

SpecBV == InitBV /\ [][NextBV]_vars

-----------------------------------------------------------------------------
(* src/src/bitvector.rs, the calls on whole bitvectors: ones, the set       *)
(* operations on `vector` and `other`, and the iterators over `vector`.     *)
(*   sets        between two calls                                          *)
(*   iter        an iterator over `vector` is alive                         *)
(*   sets_panic  a call panicked                                            *)
(* `elements` is the set `vector` stands for: what was inserted, what ones  *)
(* is documented to hold, what the set operation in place gives.            *)

\* The words of the bitvectors explored are 0 .. MaxSetWord, and the elements
\* inserted the first and the last of each word.
MaxSetWord == 1

SetBits == {64 * w + o : w \in 0 .. MaxSetWord, o \in {0, 63}}

\* The elements inserted into `other`: the last of each word.
OtherBits == {64 * w + 63 : w \in 0 .. MaxSetWord}

\* The arguments of ones that are explored.
OnesBits == {64 * w + o : w \in 0 .. MaxSetWord, o \in {0, 1, 63}}

\* u64::max_value()
u64_max == 0 .. 63

word_offset(index) == [word |-> index \div 64, offset |-> index % 64]

\* x >> amount on a u64, for 0 <= amount < 64.
shr(x, amount) == {b - amount : b \in {c \in x : c >= amount}}

\* BitVector::ones. For offset = 0 the shift is by 64: with overflow checks
\* (a debug build) the shift panics, without them (a release build) the
\* amount is taken modulo 64.
BitVector_ones(nbits, overflow_checks) ==
    LET wo == word_offset(nbits)
        amount == 64 - wo.offset
    IN IF amount >= 64 /\ overflow_checks
       THEN [vector |-> <<>>, panics |-> TRUE]
       ELSE [vector |-> [w \in 1 .. wo.word + 1 |->
                            IF w <= wo.word THEN u64_max
                            ELSE shr(u64_max, amount % 64)],
             panics |-> FALSE]

\* The elements of a bitvector: those contains() is true of.
ElementsOf(vec) ==
    {bit \in 0 .. BitVector_capacity(vec) - 1 : BitVector_contains(vec, bit)}

\* The number of pairs of a.iter().zip(b.iter()).
zip_len(a, b) == IF Len(a) < Len(b) THEN Len(a) ELSE Len(b)

\* iter().skip(n).cloned()
skip(vec, n) == SubSeq(vec, n + 1, Len(vec))

\* x1 ^ x2
xor(x1, x2) == (x1 \ x2) \cup (x2 \ x1)

\* union without the words one operand has more than the other.
BitVector_union_zipped(a, b) == [w \in 1 .. zip_len(a, b) |-> a[w] \cup b[w]]

\* BitVector::union
BitVector_union(a, b) ==
    LET v == [w \in 1 .. zip_len(a, b) |-> a[w] \cup b[w]]
        len1 == Len(a)
        len2 == Len(b)
    IN IF len1 > len2 THEN v \o skip(a, len2)
       ELSE IF len1 < len2 THEN v \o skip(b, len1)
       ELSE v

\* BitVector::intersection
BitVector_intersection(a, b) ==
    [w \in 1 .. zip_len(a, b) |->
        IF a[w] = {} THEN {} ELSE a[w] \cap b[w]]

\* BitVector::difference
BitVector_difference(a, b) ==
    LET v == [w \in 1 .. zip_len(a, b) |->
                 IF a[w] = {} THEN {} ELSE xor(a[w], b[w]) \cap a[w]]
        len1 == Len(a)
        len2 == Len(b)
    IN IF len1 > len2 THEN v \o skip(a, len2) ELSE v

\* The operators on BitVector and on &BitVector: |, & and ^.
bitor(a, b) == BitVector_union(a, b)

bitand(a, b) == BitVector_intersection(a, b)

bitxor(a, b) == BitVector_difference(a, b)

\* The assert_eq! of the operations in place fails.
inplace_asserts(a, b) == BitVector_capacity(a) # BitVector_capacity(b)

\* BitVector::union_inplace, past its assertion.
BitVector_union_inplace(a, b) ==
    [w \in 1 .. Len(a) |->
        IF w <= zip_len(a, b) /\ a[w] # u64_max THEN a[w] \cup b[w] ELSE a[w]]

\* BitVector::intersection_inplace, past its assertion.
BitVector_intersection_inplace(a, b) ==
    [w \in 1 .. Len(a) |->
        IF w <= zip_len(a, b) /\ a[w] # {} THEN a[w] \cap b[w] ELSE a[w]]

\* BitVector::difference_inplace, past its assertion.
BitVector_difference_inplace(a, b) ==
    [w \in 1 .. Len(a) |->
        IF w <= zip_len(a, b) /\ a[w] # {}
        THEN a[w] \cap xor(a[w], b[w]) ELSE a[w]]

\* The calls that allocate their result, their operators, and the calls in
\* place.
Allocating(op, a, b) ==
    CASE op = "union" -> BitVector_union(a, b)
      [] op = "intersection" -> BitVector_intersection(a, b)
      [] op = "difference" -> BitVector_difference(a, b)

Operator(op, a, b) ==
    CASE op = "union" -> bitor(a, b)
      [] op = "intersection" -> bitand(a, b)
      [] op = "difference" -> bitxor(a, b)

InPlace(op, a, b) ==
    CASE op = "union" -> BitVector_union_inplace(a, b)
      [] op = "intersection" -> BitVector_intersection_inplace(a, b)
      [] op = "difference" -> BitVector_difference_inplace(a, b)

SetOps == {"union", "intersection", "difference"}

\* The set an operation stands for.
SetOf(op, x, y) ==
    CASE op = "union" -> x \cup y
      [] op = "intersection" -> x \cap y
      [] op = "difference" -> x \ y

\* BitVector::iter and into_iter: the iterator over a bitvector.
BitVector_iter(vec) ==
    [slice_index |-> 0, current |-> {}, idx |-> 0,
     size |-> BitVector_capacity(vec)]

\* u64::trailing_zeros of a word that is not 0.
trailing_zeros(x) == CHOOSE b \in x : \A c \in x : b <= c

\* The loop of next(), lines 473-487 and 509-522: fetch words until one is not
\* 0; `none` when the words are used up.
RECURSIVE Iter_fetch(_, _)
Iter_fetch(vec, it) ==
    IF it.current # {} THEN [it |-> it, none |-> FALSE]
    ELSE IF it.slice_index < Len(vec)
    THEN LET i == vec[it.slice_index + 1]
             fetched == [it EXCEPT !.slice_index = @ + 1]
         IN IF i = {}
            THEN Iter_fetch(vec, [fetched EXCEPT !.idx = @ + 64])
            ELSE Iter_fetch(vec, [fetched EXCEPT !.idx = u64s(@) * 64,
                                                 !.current = i])
    ELSE [it |-> it, none |-> TRUE]

\* next() taking the index of the bit for the element.
Iter_item_offset(idx, offset) == offset

\* next(), lines 492-493 and 527-528: the element returned.
Iter_item(idx, offset) == idx + offset

\* BitVectorIntoIter::next and BitVectorIter::next, which differ in how the
\* next word is fetched only.
Iter_next(vec, it) ==
    IF it.idx > it.size THEN [it |-> it, some |-> FALSE, item |-> 0]
    ELSE LET f == Iter_fetch(vec, it) IN
         IF f.none THEN [it |-> f.it, some |-> FALSE, item |-> 0]
         ELSE LET offset == trailing_zeros(f.it.current) IN
              [it |-> [f.it EXCEPT !.current = shr(shr(@, offset), 1),
                                   !.idx = @ + offset + 1],
               some |-> TRUE,
               item |-> Iter_item(f.it.idx, offset)]

InitSets ==
    /\ \E na \in SetBits, nb \in OtherBits \cup {0} :
          /\ vector = BitVector_new(na)
          /\ other = BitVector_new(nb)
    /\ elements = {}
    /\ iter = NoIter
    /\ out = NoCall
    /\ pc = "sets"
    /\ NoSampler
    /\ NoDriver
    /\ inv_additive = 0
    /\ inv_multiplicative = 0

\* vector.insert(bit)
Sets_insert(bit) ==
    /\ pc = "sets"
    /\ vector' = BitVector_insert(vector, bit).vector
    /\ elements' = elements \cup {bit}
    /\ out' = NoCall
    /\ UNCHANGED <<sampler, pc, driver, modes, other, iter>>

\* other.insert(bit)
Sets_insert_other(bit) ==
    /\ pc = "sets"
    /\ other' = BitVector_insert(other, bit).vector
    /\ out' = NoCall
    /\ UNCHANGED <<sampler, pc, driver, modes, bits, iter>>

\* vector = BitVector::ones(nbits)
Sets_ones(nbits, overflow_checks) ==
    /\ pc = "sets"
    /\ LET r == BitVector_ones(nbits, overflow_checks) IN
       /\ vector' = r.vector
       /\ pc' = IF r.panics THEN "sets_panic" ELSE pc
       /\ out' = [op |-> "ones", bits |-> nbits, panics |-> r.panics]
    /\ elements' = 0 .. nbits - 1
    /\ UNCHANGED <<sampler, driver, modes, other, iter>>

\* vector.union(&other), vector.intersection(&other), vector.difference(&other)
\* and &vector | &other, &vector & &other, &vector ^ &other.
Sets_allocating(op) ==
    /\ pc = "sets"
    /\ out' = [op |-> op, inplace |-> FALSE,
               vector |-> Allocating(op, vector, other),
               operator |-> Operator(op, vector, other)]
    /\ UNCHANGED <<sampler, pc, driver, modes, bits, other, iter>>

\* vector.union_inplace(&other), vector.intersection_inplace(&other) and
\* vector.difference_inplace(&other).
Sets_inplace(op) ==
    /\ pc = "sets"
    /\ IF inplace_asserts(vector, other)
       THEN /\ pc' = "sets_panic"
            /\ out' = [op |-> op, inplace |-> TRUE, self |-> vector,
                       panics |-> TRUE]
            /\ UNCHANGED bits
       ELSE /\ pc' = pc
            /\ vector' = InPlace(op, vector, other)
            /\ elements' = SetOf(op, elements, ElementsOf(other))
            /\ out' = [op |-> op, inplace |-> TRUE, self |-> vector,
                       panics |-> FALSE]
    /\ UNCHANGED <<sampler, driver, modes, other, iter>>

\* vector.iter() and vector.into_iter()
Sets_iter ==
    /\ pc = "sets"
    /\ iter' = BitVector_iter(vector)
    /\ out' = [op |-> "iter", items |-> <<>>, ended |-> FALSE]
    /\ pc' = "iter"
    /\ UNCHANGED <<sampler, driver, modes, bits, other>>

\* next() on the iterator; after None the iterator is dropped.
Sets_iter_next ==
    /\ pc = "iter"
    /\ LET r == Iter_next(vector, iter) IN
       /\ iter' = r.it
       /\ out' = IF r.some
                 THEN [out EXCEPT !.items = Append(@, r.item)]
                 ELSE [out EXCEPT !.ended = TRUE]
       /\ pc' = IF r.some THEN pc ELSE "sets"
    /\ UNCHANGED <<sampler, driver, modes, bits, other>>

NextSets ==
    \/ \E bit \in SetBits : Sets_insert(bit)
    \/ \E bit \in OtherBits : Sets_insert_other(bit)
    \/ \E nbits \in OnesBits, overflow_checks \in BOOLEAN :
          Sets_ones(nbits, overflow_checks)
    \/ \E op \in SetOps : Sets_allocating(op)
    \/ \E op \in SetOps : Sets_inplace(op)

SpecSets == InitSets /\ [][NextSets]_vars

\* The iterators alone: over the bitvectors that new, ones and insert build.
InitIter ==
    /\ \E na \in SetBits : vector = BitVector_new(na)
    /\ elements = {}
    /\ NoCalls
    /\ pc = "sets"
    /\ NoSampler
    /\ NoDriver
    /\ inv_additive = 0
    /\ inv_multiplicative = 0

NextIter ==
    \/ \E bit \in SetBits : Sets_insert(bit)
    \/ \E nbits \in OnesBits, overflow_checks \in BOOLEAN :
          Sets_ones(nbits, overflow_checks)
    \/ Sets_iter
    \/ Sets_iter_next

SpecIter == InitIter /\ [][NextIter]_vars

-----------------------------------------------------------------------------
(* What the properties below are stated with. These read the slots without *)
(* changing them and are defined for any slot contents, cyclic ones too.   *)

PointSet == 0 .. size - 1

\* The point reached from u after k parent links.
RECURSIVE Ancestor(_, _, _)
Ancestor(d, u, k) == IF k = 0 THEN u ELSE Ancestor(d, parent(d, u), k - 1)

\* Where the parent links lead from each point: its root, when the links
\* have no cycle.
RootMap(d) == [u \in DOMAIN d |-> Ancestor(d, u, Cardinality(DOMAIN d))]

RootOf(d, u) == Ancestor(d, u, Cardinality(DOMAIN d))

\* The number of parent links from u to a root (the number of points if none).
RECURSIVE DepthFrom(_, _, _)
DepthFrom(d, u, k) ==
    IF is_root(d[u]) \/ k = 0 THEN 0 ELSE 1 + DepthFrom(d, parent(d, u), k - 1)

Depth(d, u) == DepthFrom(d, u, Cardinality(DOMAIN d))

\* The points whose links lead where those of u lead.
Component(d, u) == LET rm == RootMap(d) IN {w \in DOMAIN d : rm[w] = rm[u]}

Components(d) ==
    LET rm == RootMap(d) IN
    {{w \in DOMAIN d : rm[w] = r} : r \in {rm[u] : u \in DOMAIN d}}

RootPoints(d) == {u \in DOMAIN d : is_root(d[u])}

\* Unordered pairs of distinct points in one class / in two classes of P.
PairsInside(P) ==
    Cardinality(UNION {{pr \in c \X c : pr[1] < pr[2]} : c \in P})

PairsAcross(P) ==
    Cardinality(UNION {{pr \in c1 \X c2 : pr[1] < pr[2]} :
                          <<c1, c2>> \in {cc \in P \X P : cc[1] # cc[2]}})

\* The slots represent partition P: links end at a root, one root per class,
\* carrying the size of its class.
Represents(d, P) ==
    /\ LET rm == RootMap(d) IN \A u \in DOMAIN d : is_root(d[rm[u]])
    /\ Components(d) = P
    /\ \A c \in P :
          /\ Cardinality(c \cap RootPoints(d)) = 1
          /\ \A r \in c \cap RootPoints(d) : try_size(d[r]) = Cardinality(c)

-----------------------------------------------------------------------------
\* C1: a complete run emits exactly N-1 edges, one per successful unite (the
\* number of components is N minus the number of edges emitted), and when
\* next() returns None every pair of points is in the same component.
C1_SpanningTree ==
    /\ Cardinality(part) = size - emitted
    /\ Components(data) = part
    /\ pc = "done" =>
          /\ emitted = size - 1
          /\ \A u, v \in PointSet : same_set(data, u, v).ret

C1_Witness == pc = "done" /\ size = BigN /\ emitted = BigN - 1 /\ fat_component.some

\* The entries of remainder that sample_remainder accepts in the current state.
AcceptedRemainders ==
    {i \in 1 .. Len(fat_component.remainders) :
        remainder_accepts(root_size(data, fat_component.remainders[i]),
                          fat_component)}

\* C2: every call of next() can return: no draw panics, each rejection loop
\* that is entered has a draw it accepts (for the loop of the second branch: a
\* pair of draws), the pair handed to unite is united, so the loop of next()
\* is left, and the calls that return an edge are bounded by the quota.
C2_LoopsExit ==
    /\ pc # "panic"
    /\ emitted + total_count = size - 1
    /\ pc = "sparse" =>
          \E u, v \in PointSet : sparse_accepts(same_set(data, u, v))
    /\ pc = "component" =>
          \E u \in PointSet : component_accepts(root_size(data, u), fat_component)
    /\ pc \in {"remainder", "rem_u", "rem_v"} => AcceptedRemainders # {}
    /\ pc \in {"rem_u", "rem_v"} =>
          \E i, j \in AcceptedRemainders :
              ~same_set(data, fat_component.remainders[i],
                              fat_component.remainders[j]).ret
    /\ pc = "unite" => unite(data, total_internal, edge[1], edge[2]).ret

\* The loop of the second branch has been entered, with an entry of remainder
\* gone stale.
C2_Witness ==
    /\ pc = "rem_v" /\ size = BigN
    /\ \E i \in 1 .. Len(fat_component.remainders) :
          RootOf(data, fat_component.remainders[i]) = fat_component.root

\* C3: linked_edges() is the number of pairs of points in the same component,
\* free_edges() the number of pairs in different components, and they add up
\* to total_edges() = N(N-1)/2, so free_edges never underflows.
C3_EdgeCounters ==
    /\ linked_edges = PairsInside(part)
    /\ free_edges = PairsAcross(part)
    /\ total_internal <= total_edges
    /\ free_edges + linked_edges = total_edges
    /\ 2 * total_edges = size * (size - 1)

\* The scenario of the spec: N = 4 after unite(0,1), unite(2,3), unite(1,2).
C3_Witness ==
    /\ size = 4 /\ linked_edges = 6 /\ free_edges = 0
    /\ data[0] = LinkSizeCompact_link(1) /\ data[1] = LinkSizeCompact_link(3)
    /\ data[2] = LinkSizeCompact_link(3) /\ data[3] = LinkSizeCompact_root(4)
    /\ \A u, v \in PointSet : same_set(data, u, v).ret

\* What C4 asks of unite(u, v) called in the current state.
UnitePost(u, v) ==
    LET r == unite(data, total_internal, u, v)
        merged == ClassOf(part, u) \cup ClassOf(part, v)
    IN /\ r.ret <=> (ClassOf(part, u) # ClassOf(part, v))
       /\ r.ret =>
            /\ same_set(r.data, u, v).ret
            /\ root_size(r.data, u).size
                 = root_size(data, u).size + root_size(data, v).size
            /\ root_size(r.data, u).size = Cardinality(merged)
            /\ Represents(r.data, Merge(part, u, v))
            /\ \A w \in PointSet \ merged :
                 /\ RootOf(r.data, w) = RootOf(data, w)
                 /\ root_size(r.data, w).size = root_size(data, w).size

\* C4: unite(u, v) returns true exactly when u and v were in different
\* components; then the two are one component whose size is the sum of the two
\* sizes, and every other component keeps its points, its root and its size.
C4_Unite == \A u, v \in PointSet : UnitePost(u, v)

\* Two components of two points or more and a third component: the unite of
\* two points that are not roots walks both paths, and there is another
\* component to leave alone.
C4_Witness ==
    /\ Cardinality(part) >= 3
    /\ \E u, v \in PointSet :
          /\ ClassOf(part, u) # ClassOf(part, v)
          /\ Depth(data, u) >= 1 /\ Depth(data, v) >= 1

\* C5: unite(u, v) on two points of one component (u = v too) returns false
\* and changes no slot (so no component, no root and no size) and not the
\* internal-edge counter.
C5_UniteSameComponent ==
    \A u, v \in PointSet :
        ClassOf(part, u) = ClassOf(part, v) =>
            LET r == unite(data, total_internal, u, v) IN
            /\ ~r.ret
            /\ r.data = data
            /\ r.total_internal = total_internal

\* Two distinct points of one component with different parents, one of them
\* two links or more from the root: unite walks before it finds them joined.
C5_Witness ==
    \E u, v \in PointSet :
        /\ u # v /\ ClassOf(part, u) = ClassOf(part, v)
        /\ parent(data, u) # parent(data, v)
        /\ Depth(data, u) >= 2

\* C6: in every reachable state the parent links from any point reach a root,
\* each component has exactly one root, and the size stored at a root is the
\* number of points of its component.
C6_Forest == Represents(data, part)

C6_Witness ==
    /\ \E u \in PointSet : Depth(data, u) >= 3
    /\ \E c \in part : Cardinality(c) >= 4
    /\ Cardinality(part) = 2

\* What C7 asks of the slots d1 left by a read-only call in the current state.
OnlyShortened(d1) ==
    /\ Components(d1) = Components(data)
    /\ RootPoints(d1) = RootPoints(data)
    /\ \A r \in RootPoints(data) : d1[r] = data[r]
    /\ \A w \in PointSet :
          /\ RootOf(d1, w) = RootOf(data, w)
          /\ Depth(d1, w) <= Depth(data, w)

\* C7: root(u) returns the root of u's component, and root, size and same_set
\* change no component, no root and no root's size (the edge counters are not
\* theirs to write): they only shorten parent paths.
C7_ReadOnly ==
    /\ \A u \in PointSet :
          LET r == root_size(data, u) IN
          /\ r.root \in ClassOf(part, u) \cap RootPoints(data)
          /\ r.root = RootOf(data, u)
          /\ r.size = Cardinality(ClassOf(part, u))
          /\ OnlyShortened(r.data)
    /\ \A u, v \in PointSet :
          LET s == same_set(data, u, v) IN
          /\ s.ret <=> (ClassOf(part, u) = ClassOf(part, v))
          /\ OnlyShortened(s.data)

\* A point three links from its root: root(u) splits its path.
C7_Witness ==
    \E u \in PointSet :
        /\ Depth(data, u) >= 3
        /\ root_size(data, u).data # data

\* C8: once a fat component is tracked it stays tracked, and
\* find_fat_component is not run again.
C8_DetectOnce ==
    [][fat_component.some =>
         (fat_component'.some /\ detections' = detections)]_vars

C8_Witness ==
    /\ fat_component.some /\ detections = 1
    /\ size = BigN /\ total_count = 1 /\ pc = "unite"

\* C9 as stated: every complete run has made the Sparse -> FatTracked
\* transition exactly once when it terminates.
C9_ExactlyOnce == pc = "done" => detections = 1

\* C9 as amended: every complete run has made the transition at most once
\* when it terminates, and a fat component is tracked exactly if it made it.
C9_AtMostOnce ==
    /\ detections <= 1
    /\ pc = "done" => (fat_component.some <=> detections = 1)

C9_Witness == pc = "done" /\ detections = 1 /\ size = MaxN

Range(s) == {s[i] : i \in 1 .. Len(s)}

\* The points outside the component of point r.
Outside(r) == PointSet \ ClassOf(part, r)

\* What C11 asks of the state find_fat_component leaves.
DetectionPost ==
    /\ fat_component.some
    /\ is_root(data[fat_component.root])
    /\ Components(data) = part
    /\ fat_component.size = Cardinality(ClassOf(part, fat_component.root))
    /\ fat_component.size * 2 >= size
    /\ Range(fat_component.remainders) = Outside(fat_component.root)
    /\ Len(fat_component.remainders) = Cardinality(Outside(fat_component.root))

\* C11: immediately after detection the tracked root is the current root of
\* the component found, the tracked size is that component's number of points,
\* and remainder holds exactly the points outside it, each exactly once.
C11_Detection == [][detections' # detections => DetectionPost']_vars

\* The state detection leaves in the large run: several points outside.
C11_Witness ==
    /\ size = BigN /\ pc = "gen_bool" /\ detections = 1
    /\ emitted = fat_component.size - 1
    /\ Cardinality(part) >= 4
    /\ Len(fat_component.remainders) = Cardinality(part) - 1
    /\ data[0] # LinkSizeCompact_root(1)

\* What update_fat_component makes of the fat component in the current state.
Refreshed == update_fat_component(data, size, fat_component).fat

\* C12: while a fat component is tracked, every point outside it is listed in
\* remainder, and the compaction of a refresh removes only entries that are
\* inside the fat component.
C12_RemainderSuperset ==
    fat_component.some =>
        /\ Outside(fat_component.root) \subseteq Range(fat_component.remainders)
        /\ Outside(fat_component.root) \subseteq Range(Refreshed.remainders)
        /\ Range(fat_component.remainders) \ Range(Refreshed.remainders)
              \subseteq ClassOf(part, fat_component.root)

\* next() is about to refresh, the refresh compacts, and a point is outside.
C12_Witness ==
    /\ fat_component.some /\ pc = "idle"
    /\ ~(free_edges = 0 \/ total_count = 0)
    /\ Refreshed.remainders # fat_component.remainders
    /\ Outside(fat_component.root) # {}

\* C13: a refresh compacts remainder exactly when (N - fat_size) * 2 <
\* remainder.len(), fat_size being the size the refresh reads; after a refresh
\* remainder.len() <= 2 * (N - fat_size), and at least half of the entries
\* are points outside the fat component.
C13_Compaction ==
    fat_component.some =>
        /\ (Refreshed.remainders # fat_component.remainders)
              <=> (Cardinality(Outside(fat_component.root)) * 2
                     < Len(fat_component.remainders))
        /\ Len(Refreshed.remainders) <= 2 * (size - Refreshed.size)
        /\ Len(Refreshed.remainders)
              <= 2 * Cardinality({i \in 1 .. Len(Refreshed.remainders) :
                      Refreshed.remainders[i] \in Outside(fat_component.root)})
        /\ pc \notin {"idle", "done"} =>
              Len(fat_component.remainders) <= 2 * (size - fat_component.size)

\* A refresh has compacted: remainder is shorter than detection left it.
C13_Witness ==
    /\ size = BigN /\ pc = "gen_bool"
    /\ Len(fat_component.remainders) = 1
    /\ fat_component.size = size - 1

\* The positions of next() at which a candidate edge is being drawn or has
\* been drawn.
Drawing == {"gen_bool", "component", "remainder", "rem_u", "rem_v", "unite"}

\* C14: whenever a candidate edge is drawn with a fat component tracked, the
\* tracked root is the current root of the fat component and the tracked size
\* is that component's number of points, more than half of N; and the tracked
\* component only grows from step to step.
C14_Tracked ==
    /\ [](fat_component.some /\ pc \in Drawing =>
            /\ is_root(data[fat_component.root])
            /\ fat_component.size = Cardinality(ClassOf(part, fat_component.root))
            /\ fat_component.size = try_size(data[fat_component.root])
            /\ fat_component.size * 2 > size)
    /\ [][fat_component.some =>
            /\ fat_component'.some
            /\ fat_component'.size >= fat_component.size
            /\ ClassOf(part, fat_component.root)
                  \subseteq ClassOf(part', fat_component'.root)]_vars

\* A refresh has moved the tracked root: the component found had another root.
C14_Witness ==
    /\ fat_component.some /\ pc = "gen_bool"
    /\ fat_component.root = size - 1
    /\ Outside(fat_component.root) # {}
    /\ \E i \in 1 .. Len(fat_component.remainders) :
          fat_component.remainders[i] = fat_component.root

\* The pairs of a point of class c and a point outside it.
PairsLeaving(c) == c \X (PointSet \ c)

\* C15: with a fat component tracked, the numerator fat_size * (N - fat_size)
\* handed to gen_bool is the number of free edges with exactly one endpoint in
\* the fat component; it is positive and at most free_edges, so the
\* probability lies in (0, 1].
C15_BranchProbability ==
    pc = "gen_bool" =>
        LET num == branch_numerator(fat_component, size) IN
        /\ num = Cardinality(PairsLeaving(ClassOf(part, fat_component.root)))
        /\ free_edges = PairsAcross(part)
        /\ 0 < num
        /\ num <= free_edges

\* gen_bool is handed a probability below 1, in the large run.
C15_Witness ==
    /\ pc = "gen_bool" /\ size = BigN
    /\ branch_numerator(fat_component, size) < free_edges

\* An unordered pair of points.
Pair(u, v) == {u, v}

\* The pairs sample_sparse_edge can return in the current state.
SparsePairs ==
    {Pair(u, v) : <<u, v>> \in
        {pr \in PointSet \X PointSet :
            sparse_accepts(same_set(data, pr[1], pr[2]))}}

\* The pairs the first branch of sample_component_edge can return.
FirstBranchPairs ==
    IF gen_bool_can(branch_numerator(fat_component, size), free_edges, TRUE)
    THEN {Pair(u, fat_component.remainders[i]) : <<u, i>> \in
            {pr \in PointSet \X AcceptedRemainders :
                component_accepts(root_size(data, pr[1]), fat_component)}}
    ELSE {}

\* The pairs the second branch of sample_component_edge can return.
SecondBranchPairs ==
    IF gen_bool_can(branch_numerator(fat_component, size), free_edges, FALSE)
    THEN {Pair(fat_component.remainders[pr[1]], fat_component.remainders[pr[2]]) :
            pr \in {qr \in AcceptedRemainders \X AcceptedRemainders :
                ~same_set(data, fat_component.remainders[qr[1]],
                                fat_component.remainders[qr[2]]).ret}}
    ELSE {}

\* The free edges: pairs of points in different components.
FreePairs ==
    {Pair(pr[1], pr[2]) : pr \in
        {qr \in PointSet \X PointSet : ClassOf(part, qr[1]) # ClassOf(part, qr[2])}}

\* C16: the pairs a step with a fat component tracked can return are exactly
\* the free edges, the same pairs sample_sparse_edge can return: the first
\* branch gives the pairs between the fat component and the outside, the
\* second the pairs of outside points in different components.
C16_SamePairs ==
    pc = "gen_bool" =>
        /\ FirstBranchPairs \cup SecondBranchPairs = FreePairs
        /\ SparsePairs = FreePairs
        /\ FirstBranchPairs =
              {q \in FreePairs : q \cap ClassOf(part, fat_component.root) # {}}
        /\ SecondBranchPairs =
              {q \in FreePairs : q \cap ClassOf(part, fat_component.root) = {}}

\* Both branches have pairs to return, and remainder has a stale entry.
C16_Witness ==
    /\ pc = "gen_bool"
    /\ FirstBranchPairs # {} /\ SecondBranchPairs # {}
    /\ Cardinality(AcceptedRemainders) < Len(fat_component.remainders)

\* C18: free_edges is 0 exactly when the edge quota is 0, the number of
\* components being the quota plus 1; free_edges does not reach 0 before the
\* quota does.
C18_QuotaMatchesFree ==
    /\ Cardinality(part) = total_count + 1
    /\ (free_edges = 0) <=> (total_count = 0)
    /\ free_edges >= total_count

\* next() is called with nothing left, after a run that tracked a fat
\* component.
C18_Witness ==
    /\ pc = "idle" /\ free_edges = 0 /\ total_count = 0
    /\ size = BigN /\ fat_component.some

\* The weight next() attaches to an edge it returns now: 1.0 - inv_weight.
edge_weight == Scale - inv_weight

\* C20: the weights attached to successively emitted edges are non-decreasing
\* in emission order: no step raises inv_weight, in the approximate mode, in
\* the exact mode and across the switch from one to the other.
C20_WeightsNonDecreasing ==
    /\ [](0 <= inv_weight /\ inv_weight <= Scale)
    /\ [][edge_weight' >= edge_weight]_vars

\* An edge has been emitted in the exact mode after edges emitted in the
\* approximate mode, with a weight above 0.
C20_Witness ==
    /\ size = WN /\ pc = "idle" /\ advances = emitted /\ emitted >= 2
    /\ rate <= ApproxLimit /\ free_edges + WBelow <= ApproxLimit
    /\ edge_weight > 0

\* The positions at which a pair is handed to unite.
AtUnite == {"unite", "z_unite"}

\* unite called on the pair drawn, in the current state, returns true.
UniteSucceeds ==
    IF pc = "unite"
    THEN unite(data, total_internal, edge[1], edge[2]).ret
    ELSE Rem_unite(data, total_internal, edge[1], edge[2]).ret

\* C17: the pair a sampler step hands to unite lies in two different
\* components, so unite succeeds on the first attempt: the retry branch of
\* next() is not taken, and the quota decrement of the zero_dim sample(), which
\* does not look at what unite returns, goes with a merge.
C17_NoRetry ==
    /\ [](pc \in AtUnite =>
            /\ ClassOf(part, edge[1]) # ClassOf(part, edge[2])
            /\ UniteSucceeds)
    /\ [][(pc \in AtUnite) =>
            /\ pc' \in {"idle", "z_idle"}
            /\ total_count' = total_count - 1
            /\ emitted' = emitted + 1
            /\ Cardinality(part') = Cardinality(part) - 1
            /\ (free_edges' < free_edges)]_vars

\* The zero_dim sample() is about to unite two points outside the fat
\* component it tracks.
C17_Witness ==
    /\ pc = "z_unite" /\ fat_component.some
    /\ ClassOf(part, edge[1]) # ClassOf(part, fat_component.root)
    /\ ClassOf(part, edge[2]) # ClassOf(part, fat_component.root)

\* The positions between the update of the weight and the unite of a step.
InStep ==
    {"sparse"} \cup Drawing \cup
    {"z_sparse", "z_gen_bool", "z_component", "z_remainder", "z_rem_u",
     "z_rem_v", "z_unite"}

\* C19: in each step the weight is advanced before the candidate edge is
\* drawn, with the free_edges of before the step's unite as rate: while the
\* k-th edge is drawn the weight has been advanced k times, the last time at
\* the number of free edges after k - 1 merges.
C19_RateBeforeDraw ==
    /\ pc \in InStep =>
          /\ advances = emitted + 1
          /\ rate = free_edges
          /\ rate = PairsAcross(part)
          /\ Cardinality(part) = size - emitted
    /\ pc \notin InStep => advances = emitted

\* The complete sampler is about to unite its third edge or a later one, with
\* a fat component tracked.
C19_Witness ==
    /\ pc = "unite" /\ fat_component.some /\ size = BigN
    /\ advances = emitted + 1 /\ emitted >= 2
    /\ rate = free_edges /\ rate < total_edges

-----------------------------------------------------------------------------
\* The partition new(n) stands for: every point alone.
Singletons == {{u} : u \in PointSet}

\* C25: new(n) yields n singleton components: until a unite succeeds every
\* point is its own root with size 1, no two distinct points are in the same
\* set, linked_edges() is 0 and free_edges() is n(n-1)/2.
C25_Singletons ==
    part = Singletons =>
        /\ \A u \in PointSet :
              /\ is_root(data[u])
              /\ parent(data, u) = u
              /\ root_size(data, u).root = u
              /\ root_size(data, u).size = 1
        /\ \A u, v \in PointSet : u # v => ~same_set(data, u, v).ret
        /\ linked_edges = 0
        /\ 2 * free_edges = size * (size - 1)

\* The scenario of tests::root: new on the most points, before any unite.
C25_Witness ==
    /\ pc = "uf" /\ size = MaxUF /\ part = Singletons
    /\ root_size(data, 2).root = 2 /\ root_size(data, 3).root = 3
    /\ ~same_set(data, 3, 2).ret

-----------------------------------------------------------------------------
\* The greater of two points.
Max(a, b) == IF a > b THEN a ELSE b

Min(a, b) == IF a > b THEN b ELSE a

\* C27 as stated: when two components of different sizes merge, the root of
\* the one with fewer points is linked under the root of the one with more
\* points, which remains the root of the merged component.
C27_UnionBySize ==
    \A u, v \in PointSet :
        Cardinality(ClassOf(part, u)) < Cardinality(ClassOf(part, v)) =>
            LET r == unite(data, total_internal, u, v) IN
            /\ RootOf(r.data, u) = RootOf(data, v)
            /\ RootOf(r.data, v) = RootOf(data, v)
            /\ ~is_root(r.data[RootOf(data, u)])

\* C27 amended: unite is a union by index. The root of a component is its
\* point of highest index; when two components merge, the root of lower index
\* is linked under the root of higher index, which remains the root of the
\* merged component, whatever the two sizes are.
C27_UnionByIndex ==
    /\ \A u \in PointSet : \A w \in ClassOf(part, u) : w <= RootOf(data, u)
    /\ \A u, v \in PointSet :
          ClassOf(part, u) # ClassOf(part, v) =>
              LET r == unite(data, total_internal, u, v)
                  hi == Max(RootOf(data, u), RootOf(data, v))
                  lo == Min(RootOf(data, u), RootOf(data, v))
              IN /\ RootOf(r.data, u) = hi
                 /\ RootOf(r.data, v) = hi
                 /\ is_root(r.data[hi])
                 /\ ~is_root(r.data[lo])
                 /\ RootOf(r.data, lo) = hi

\* The scenario of tests::unite, on points 0, 1, 2: after unite(0, 1) and
\* unite(1, 2) the root of the two points is linked under the single point;
\* and two components are left of which the larger has the lower root.
C27_Witness ==
    /\ data[0] = LinkSizeCompact_link(1)
    /\ data[1] = LinkSizeCompact_link(2)
    /\ \E u, v \in PointSet :
          /\ Cardinality(ClassOf(part, u)) > Cardinality(ClassOf(part, v))
          /\ RootOf(data, u) < RootOf(data, v)

-----------------------------------------------------------------------------
\* The point of highest index in a set of points.
SetMax(S) == CHOOSE x \in S : \A y \in S : y <= x

\* The number of points in the component of u.
CardOf(u) == Cardinality(ClassOf(part, u))

\* Of the components of u and v, the one that is joined under the other (the
\* one whose highest point is lower) and the one that stays.
JoinedOf(u, v) ==
    IF SetMax(ClassOf(part, u)) < SetMax(ClassOf(part, v))
    THEN ClassOf(part, u) ELSE ClassOf(part, v)

StayingOf(u, v) ==
    IF SetMax(ClassOf(part, u)) < SetMax(ClassOf(part, v))
    THEN ClassOf(part, v) ELSE ClassOf(part, u)

\* A step of sample_sparse (kruskal) in which unite succeeded.
K_Merged == pc = "k_sparse" /\ total_internal' # total_internal

\* A step of sample() (zero_dim) in which unite succeeded.
Z_Merged == pc = "z_unite" /\ total_internal' # total_internal

-----------------------------------------------------------------------------
\* The positions at which a sampler is alive.
SamplerPcs ==
    {"idle", "sparse", "gen_bool", "component", "remainder", "rem_u", "rem_v",
     "unite", "done"}

\* C22: run_trial treats dimension 0 as the random complete graph and rejects
\* every other dimension as unsupported: a run with a non-zero dimension ends
\* in an error, no trial of it produces a weight.
C22_RejectsOtherDimensions ==
    /\ args.dimension # 0 => results = <<>> /\ pc \notin SamplerPcs
    /\ args.dimension = 0 => pc # "main_err"

-----------------------------------------------------------------------------
\* C23: asked for a sampler on 0 or 1 points, construction fails before any
\* sampling step: no sampler is ever alive and no trial returns a result.
C23_FailsFast ==
    (args.num_points \in {0, 1} /\ args.dimension = 0) =>
        /\ pc \notin SamplerPcs
        /\ results = <<>>

-----------------------------------------------------------------------------
\* A trial of complete::mst returns in this step.
MstReturns == pc = "done" /\ Len(results') = Len(results) + 1

\* C29: complete::mst pulls until the sampler yields None and returns the sum
\* of the weights of exactly N - 1 edges: every edge is followed by the
\* addition of the weight it was emitted with before the sampler is called
\* again, and the sum is returned only once N - 1 weights are in it.
C29_SumOfAll ==
    /\ [](added <= emitted /\ emitted <= added + 1)
    /\ [][/\ emitted' = emitted + 1 => added = emitted /\ total_weight' = total_weight
          /\ emitted > added =>
                /\ inv_weight' = inv_weight
                /\ added' = added + 1
                /\ total_weight' = total_weight + (Scale - inv_weight)
          /\ MstReturns =>
                /\ added = emitted
                /\ emitted = args.num_points - 1
                /\ Cardinality(part) = 1
                /\ results' = Append(results, total_weight)]_vars

\* The trial of the large run returned: ten weights in its sum.
C29_Witness ==
    /\ pc = "main_done" /\ args.num_points = BigN /\ args.dimension = 0
    /\ Len(results) = 1 /\ results[1] > 0

-----------------------------------------------------------------------------
\* C24: SizedUnionFind::new(n) fails at construction when n has the tag bit
\* set, so no sampler is ever alive on such an n; and for every accepted n
\* each slot holds either a parent index below n or a root size of 1 .. n,
\* neither with the tag bit set, so a size is never read as a parent link nor
\* a parent link as a size.
C24_TagBitFree ==
    /\ TagBit(args.num_points) => pc \notin SamplerPcs /\ data = <<>>
    /\ ~TagBit(size)
    /\ \A u \in DOMAIN data :
          /\ ~TagBit(data[u].v)
          /\ is_root(data[u]) => 1 <= try_size(data[u]) /\ try_size(data[u]) <= size
          /\ ~is_root(data[u]) => 0 <= parent(data, u) /\ parent(data, u) < size

\* new panicked on a number of points with the tag bit set.
C24_Witness ==
    /\ pc = "panic" /\ TagBit(args.num_points) /\ args.dimension = 0
    /\ data = <<>>

-----------------------------------------------------------------------------
\* C30: for any bit, insert(bit) returns true exactly when bit was not in the
\* set and remove(bit) returns true exactly when it was, false otherwise;
\* after insert contains(bit) is true, after remove it is false, and the
\* membership of no other element changes.
C30_InsertRemove ==
    pc = "bv" =>
        /\ \A bit \in BitValues : BitVector_contains(vector, bit) <=> bit \in elements
        /\ \A bit \in BitValues :
              LET r == BitVector_insert(vector, bit) IN
              /\ ~r.panics
              /\ r.ret <=> bit \notin elements
              /\ BitVector_contains(r.vector, bit)
              /\ \A b \in BitValues \ {bit} :
                    BitVector_contains(r.vector, b)
                        <=> BitVector_contains(vector, b)
        /\ \A bit \in BitValues :
              LET r == BitVector_remove(vector, bit) IN
              /\ ~r.panics
              /\ r.ret <=> bit \in elements
              /\ ~BitVector_contains(r.vector, bit)
              /\ \A b \in BitValues \ {bit} :
                    BitVector_contains(r.vector, b)
                        <=> BitVector_contains(vector, b)

\* The weights an edge has under each of the two updates: 1 - inv_weight.
w_additive == Scale - inv_additive

w_multiplicative == Scale - inv_multiplicative

\* The fixed point rounds each update by less than 3 units.
Tolerance == 3 * advances

\* w * w in units of 1 / Scale while w is below 1.0, and w from there on.
SquareOf(w) == IF w <= Scale THEN (w * w) \div Scale ELSE w

\* C21 as stated: on the same samples of Exp1 and the same free_edges, the
\* update of line 43 and the update of line 46 give weights that agree within
\* the rounding of the arithmetic.
C21_ModesAgree ==
    /\ w_additive <= w_multiplicative + Tolerance
    /\ w_multiplicative <= w_additive + Tolerance

\* C21 as the code has it: on the same samples of Exp1 and the same
\* free_edges, the two updates agree to first order only: the weight of the
\* update of line 43 is never below the weight of the update of line 46, and
\* is above it by no more than its own square (within the rounding of the
\* arithmetic).
C21_ModesAgreeToFirstOrder ==
    /\ w_multiplicative <= w_additive + Tolerance
    /\ w_additive <= w_multiplicative + SquareOf(w_additive) + Tolerance

\* Two calls of next() have advanced both accumulators, the weight is below
\* 1.0, and the two weights differ by more than the rounding.
C21_Witness ==
    /\ pc = "idle"
    /\ advances >= 2
    /\ w_additive < Scale
    /\ w_additive > w_multiplicative + Tolerance

\* C31 as stated: BitVector::ones(bits) returns, for every bits, a bitvector
\* whose elements are exactly 0 .. bits - 1.
C31_OnesExactly ==
    (out.op = "ones") =>
        /\ ~out.panics
        /\ ElementsOf(vector) = 0 .. out.bits - 1

\* C32: the elements of a.union(b), a.intersection(b) and a.difference(b), and
\* of a | b, a & b and a ^ b, are the union, the intersection and the
\* difference a minus b of the elements of a and b; on operands of equal
\* capacity the operations in place leave in a the set the allocating ones
\* return.
C32_SetOperations ==
    (pc = "sets" /\ out.op \in SetOps) =>
        IF out.inplace
        THEN /\ ElementsOf(vector)
                  = SetOf(out.op, ElementsOf(out.self), ElementsOf(other))
             /\ ElementsOf(vector)
                  = ElementsOf(Allocating(out.op, out.self, other))
        ELSE /\ ElementsOf(out.vector)
                  = SetOf(out.op, ElementsOf(vector), ElementsOf(other))
             /\ ElementsOf(out.operator)
                  = SetOf(out.op, ElementsOf(vector), ElementsOf(other))

\* The union of a bitvector of fewer words with one of more words, each with
\* elements the other has not.
C32_Witness ==
    /\ pc = "sets"
    /\ out.op = "union"
    /\ ~out.inplace
    /\ Len(vector) < Len(other)
    /\ ElementsOf(vector) \ ElementsOf(other) # {}
    /\ ElementsOf(other) \ ElementsOf(vector) # {}
    /\ other[Len(other)] # {}

\* The items an iterator yielded so far, as a set.
Yielded == {out.items[i] : i \in 1 .. Len(out.items)}

\* C33: iter() and into_iter() yield the elements of the bitvector in strictly
\* increasing order, each once and none skipped, and end once all are yielded.
C33_IterYieldsElements ==
    (out.op = "iter") =>
        /\ \A i, j \in 1 .. Len(out.items) :
              i < j => out.items[i] < out.items[j]
        /\ Yielded \subseteq ElementsOf(vector)
        /\ \A e \in ElementsOf(vector) \ Yielded : \A y \in Yielded : y < e
        /\ out.ended => Yielded = ElementsOf(vector)

\* An iterator ended over a bitvector with an all-zero word before and after
\* a word with the elements of both its ends.
C33_Witness ==
    /\ out.op = "iter"
    /\ out.ended
    /\ Len(out.items) >= 2
    /\ \E w \in 2 .. Len(vector) :
          /\ vector[w - 1] = {}
          /\ {0, 63} \subseteq vector[w]

\* C34: after any sequence of unite, root, size and same_set calls every
\* link points to a strictly larger index than the point that holds it, and
\* the root of each component is its point of largest index.
C34_LinksPointUp ==
    /\ \A u \in PointSet : ~is_root(data[u]) => data[u].v > u
    /\ \A u \in PointSet : RootOf(data, u) = SetMax(ClassOf(part, u))

\* A point whose parent is not a root, in a component that a unite joined
\* under a root of lower index than one of its points would have been.
C34_Witness ==
    /\ pc = "uf"
    /\ \E u \in PointSet :
          /\ ~is_root(data[u])
          /\ ~is_root(data[data[u].v])
          /\ Cardinality(ClassOf(part, u)) >= 4

\* inv_weight after the sample x at `free` free edges, by the update of the
\* mode given.
UpdatedBy(mode, iw, x, free) ==
    IF mode = "additive"
    THEN iw - (x * Scale) \div free
    ELSE (iw * ((Scale * free) \div (free + x))) \div Scale

\* C35: a step of next() updates inv_weight additively exactly when
\* free_edges is above 2^16 at its start, and multiplicatively otherwise;
\* free_edges never grows, so once a step was multiplicative every later one
\* is.
C35_ModeByFreeEdges ==
    /\ [][free_edges' <= free_edges]_vars
    /\ [][(advances' # advances) =>
             /\ out'.mode = "additive" <=> free_edges > 2 ^ 16
             /\ inv_weight' = UpdatedBy(out'.mode, inv_weight, out'.x,
                                        free_edges)]_vars
    /\ [][(advances' # advances /\ out.op = "next"
              /\ out.mode = "multiplicative")
             => out'.mode = "multiplicative"]_vars

\* The run that starts above the limit has made a multiplicative step.
C35_Witness ==
    /\ size = WN
    /\ new_total_edges(WN) > 2 ^ 16
    /\ out.op = "next"
    /\ out.mode = "multiplicative"
    /\ out.x > 0
    /\ advances >= 2

\* C36 as stated: in the kruskal FatComponentGenerator every value next()
\* yields stands for one successful unite whose product of sizes was added to
\* total_internal, so that the yields so far are the merges so far, and after
\* size - 1 yields the points are one component.
C36_EveryYieldUnites ==
    (pc \in {"kg_idle", "kg_done"}) =>
        /\ emitted = size - Cardinality(part)
        /\ total_internal = total_edges - PairsAcross(part)
        /\ emitted = size - 1 => Cardinality(part) = 1

\* C37 as stated: in the generator of fat_component.rs each step of next()
\* that yields a value has united the pair sampled, so that active_edges is
\* strictly smaller after it, and no more than size - 1 values are yielded
\* before next() returns None and mst returns.
C37_EachStepUnites ==
    /\ [](emitted <= size - 1)
    /\ [][(emitted' = emitted + 1) =>
             /\ FC_active_edges' < FC_active_edges
             /\ Cardinality(part') = Cardinality(part) - 1]_vars

\* C38: morton_encode_2([x, y]) has bit i of x at position 2i and bit i of y
\* at position 2i + 1, and no other bit, for 16-bit coordinates; two calls
\* with distinct coordinate pairs return distinct codes.
C38_MortonInterleaves ==
    (out.op = "morton_encode_2") =>
        /\ \A i \in 0 .. 15 :
              /\ (2 * i \in out.code) <=> (i \in out.point[1])
              /\ (2 * i + 1 \in out.code) <=> (i \in out.point[2])
        /\ out.code \subseteq u32_bits
        /\ (out.before.point # out.point) => (out.before.code # out.code)

\* Two calls with distinct pairs that share a coordinate, the later one of
\* [0b1111, 0] as in tests::simple_2.
C38_Witness ==
    /\ pc = "morton_pair"
    /\ out.op = "morton_encode_2"
    /\ out.point = <<0 .. 3, {}>>
    /\ out.code = {0, 2, 4, 6}
    /\ out.before.point = <<{}, 0 .. 3>>
    /\ out.before.code = {1, 3, 5, 7}

\* The points on the parent path from u up to its root, before a call.
VisitedFrom(u) == {Ancestor(data, u, k) : k \in 0 .. size}

\* C39: root(u) relinks every non-root point on the path from u whose parent
\* is not the root to the point that was its grandparent before the call,
\* and leaves every other slot as it was.
C39_PathSplitting ==
    \A u \in PointSet :
        LET after == root_size(data, u).data IN
        \A w \in PointSet :
            IF /\ w \in VisitedFrom(u)
               /\ ~is_root(data[w])
               /\ ~is_root(data[parent(data, w)])
            THEN /\ ~is_root(after[w])
                 /\ parent(after, w) = parent(data, parent(data, w))
            ELSE after[w] = data[w]

\* A path of four links: root(u) relinks three points, each to its own
\* grandparent, and leaves the child of the root where it was.
C39_Witness ==
    \E u \in PointSet :
        LET after == root_size(data, u).data
            p1 == parent(data, u)
            p2 == parent(data, p1)
            p3 == parent(data, p2)
        IN  /\ Depth(data, u) = 4
            /\ parent(after, u) = p2
            /\ parent(after, p1) = p3
            /\ parent(after, p2) = parent(data, p3)
            /\ after[p3] = data[p3]

====
